---------------------------- MODULE Spec2Model ----------------------------
(***************************************************************************)
(* The Steps front end of tree-sitter-steps: the generated lexer (ts_lex,  *)
(* ts_lex_keywords) and the generated LR tables (ts_parse_table,           *)
(* ts_small_parse_table, ts_parse_actions) of src/parser.c, driven the way *)
(* the tree-sitter runtime drives a TSLanguage: lex one token in the lex   *)
(* mode of the state on top of the stack, look the token up in the parse   *)
(* table, then shift, reduce, accept or enter error recovery.              *)
(*                                                                         *)
(* The tables are transcribed entry by entry.  The source text is a        *)
(* sequence of ASCII characters; one run of the model parses one source.   *)
(***************************************************************************)
EXTENDS Integers, Sequences, FiniteSets, TLC

VARIABLES
  source,       \* the text being parsed
  position,     \* the lexer's offset into source: characters consumed so far
  stack,        \* the parse stack: <<[state, node]>>, bottom first
  lookahead,    \* the token lexed and not yet consumed
  pc,           \* "lex", "parse", "recover" or "done"
  error_count,  \* errors reported so far
  tree          \* the root node once the parse is done

vars == <<source, position, stack, lookahead, pc, error_count, tree>>

(***************************************************************************)
(* Generated tables of src/parser.c                                        *)
(***************************************************************************)

LARGE_STATE_COUNT == 2

\* ts_symbol_metadata: the symbols whose nodes appear in the syntax tree (.visible = true).
ts_symbol_metadata_visible ==
  {
    "sym_identifier", "anon_sym_do_COLON", "anon_sym_declare_COLON", "anon_sym_note_COLON",
    "sym_comment_content", "anon_sym_noteblock_COLON", "anon_sym_endnote",
    "anon_sym_building_COLON", "anon_sym_floor_COLON", "anon_sym_step_COLON",
    "anon_sym_riser_COLON", "anon_sym_belongsto_COLON", "anon_sym_expects_COLON",
    "anon_sym_returns_COLON", "anon_sym_COMMA", "anon_sym_as", "anon_sym_number", "anon_sym_text",
    "anon_sym_boolean", "anon_sym_list", "anon_sym_table", "anon_sym_fixed", "anon_sym_EQ",
    "anon_sym_set", "anon_sym_to", "anon_sym_call", "anon_sym_with", "anon_sym_storingresultin",
    "anon_sym_display", "anon_sym_input", "anon_sym_return", "sym_exit_statement", "anon_sym_if",
    "anon_sym_otherwiseif", "anon_sym_otherwise", "anon_sym_repeat", "anon_sym_times",
    "anon_sym_foreach", "anon_sym_in", "anon_sym_while", "anon_sym_attempt_COLON",
    "anon_sym_ifunsuccessful_COLON", "anon_sym_thencontinue_COLON", "anon_sym_add",
    "anon_sym_remove", "anon_sym_from", "sym_number", "anon_sym_DQUOTE", "sym_escape_sequence",
    "anon_sym_true", "anon_sym_false", "sym_nothing", "anon_sym_LBRACK", "anon_sym_RBRACK",
    "anon_sym_PLUS", "anon_sym_DASH", "anon_sym_STAR", "anon_sym_SLASH", "anon_sym_isequalto",
    "anon_sym_equals", "anon_sym_isnotequalto", "anon_sym_islessthan", "anon_sym_isgreaterthan",
    "anon_sym_islessthanorequalto", "anon_sym_isgreaterthanorequalto", "anon_sym_and",
    "anon_sym_or", "anon_sym_addedto", "anon_sym_contains", "anon_sym_startswith",
    "anon_sym_endswith", "anon_sym_isin", "anon_sym_not", "anon_sym_lengthof", "anon_sym_LPAREN",
    "anon_sym_RPAREN", "sym_source_file", "sym_section_marker", "sym_comment", "sym_block_comment",
    "sym_block_comment_content", "sym_structure_definition", "sym_building_def", "sym_floor_def",
    "sym_step_def", "sym_riser_def", "sym_step_clauses", "sym_belongs_clause",
    "sym_expects_clause", "sym_returns_clause", "sym_parameter_list", "sym_parameter", "sym_type",
    "sym_declaration", "sym_assignment", "sym_call_statement", "sym_with_clause",
    "sym_storing_clause", "sym_argument_list", "sym_display_statement", "sym_input_statement",
    "sym_return_statement", "sym_if_statement", "sym_otherwise_if_clause", "sym_otherwise_clause",
    "sym_repeat_statement", "sym_for_each_statement", "sym_while_statement",
    "sym_attempt_statement", "sym_if_unsuccessful_clause", "sym_then_continue_clause",
    "sym_add_statement", "sym_remove_statement", "sym_string", "sym_string_content", "sym_boolean",
    "sym_list_literal", "sym_binary_expression", "sym_binary_operator", "sym_unary_expression",
    "sym_unary_operator", "sym_call_expression", "sym_index_expression",
    "sym_parenthesized_expression"
  }

\* The terminal symbols: enum values below TOKEN_COUNT.
Terminals ==
  {
    "ts_builtin_sym_end", "sym_identifier", "anon_sym_do_COLON", "anon_sym_declare_COLON",
    "anon_sym_note_COLON", "sym_comment_content", "anon_sym_noteblock_COLON", "anon_sym_endnote",
    "aux_sym_block_comment_content_token1", "aux_sym_block_comment_content_token2",
    "aux_sym_block_comment_content_token3", "aux_sym_block_comment_content_token4",
    "aux_sym_block_comment_content_token5", "aux_sym_block_comment_content_token6",
    "aux_sym_block_comment_content_token7", "aux_sym_block_comment_content_token8",
    "anon_sym_building_COLON", "anon_sym_floor_COLON", "anon_sym_step_COLON",
    "anon_sym_riser_COLON", "anon_sym_belongsto_COLON", "anon_sym_expects_COLON",
    "anon_sym_returns_COLON", "anon_sym_COMMA", "anon_sym_as", "anon_sym_number", "anon_sym_text",
    "anon_sym_boolean", "anon_sym_list", "anon_sym_table", "anon_sym_fixed", "anon_sym_EQ",
    "anon_sym_set", "anon_sym_to", "anon_sym_call", "anon_sym_with", "anon_sym_storingresultin",
    "anon_sym_display", "anon_sym_input", "anon_sym_return", "sym_exit_statement", "anon_sym_if",
    "anon_sym_otherwiseif", "anon_sym_otherwise", "anon_sym_repeat", "anon_sym_times",
    "anon_sym_foreach", "anon_sym_in", "anon_sym_while", "anon_sym_attempt_COLON",
    "anon_sym_ifunsuccessful_COLON", "anon_sym_thencontinue_COLON", "anon_sym_add",
    "anon_sym_remove", "anon_sym_from", "sym_number", "anon_sym_DQUOTE",
    "aux_sym_string_content_token1", "sym_escape_sequence", "anon_sym_true", "anon_sym_false",
    "sym_nothing", "anon_sym_LBRACK", "anon_sym_RBRACK", "anon_sym_PLUS", "anon_sym_DASH",
    "anon_sym_STAR", "anon_sym_SLASH", "anon_sym_isequalto", "anon_sym_equals",
    "anon_sym_isnotequalto", "anon_sym_islessthan", "anon_sym_isgreaterthan",
    "anon_sym_islessthanorequalto", "anon_sym_isgreaterthanorequalto", "anon_sym_and",
    "anon_sym_or", "anon_sym_addedto", "anon_sym_contains", "anon_sym_startswith",
    "anon_sym_endswith", "anon_sym_isin", "anon_sym_not", "anon_sym_lengthof", "anon_sym_LPAREN",
    "anon_sym_RPAREN", "sym__newline"
  }

\* ts_lex: one record per case of the switch, indexed by state + 1.
\*   accept: the ACCEPT_TOKEN of the case ("" when it has none);
\*   eof:    the target of `if (eof) ADVANCE(..)` (-1 when it has none);
\*   tr:     the character tests in source order, <<lo, hi, target, skip>>:
\*           lo <= lookahead <= hi leads to ADVANCE(target), or SKIP(target) when skip.
ts_lex_states ==
  <<
  (* 0 *) [accept |-> "", eof |-> 267, tr |-> <<
      <<10, 10, 611, FALSE>>, <<34, 34, 441, FALSE>>, <<40, 40, 462, FALSE>>,
      <<41, 41, 463, FALSE>>, <<42, 42, 449, FALSE>>, <<43, 43, 447, FALSE>>,
      <<44, 44, 389, FALSE>>, <<45, 45, 448, FALSE>>, <<47, 47, 450, FALSE>>,
      <<61, 61, 390, FALSE>>, <<91, 91, 445, FALSE>>, <<92, 92, 253, FALSE>>,
      <<93, 93, 446, FALSE>>, <<97, 97, 493, FALSE>>, <<98, 98, 503, FALSE>>,
      <<99, 99, 485, FALSE>>, <<100, 100, 504, FALSE>>, <<101, 101, 554, FALSE>>,
      <<102, 102, 545, FALSE>>, <<105, 105, 526, FALSE>>, <<108, 108, 505, FALSE>>,
      <<110, 110, 565, FALSE>>, <<111, 111, 595, FALSE>>, <<114, 114, 506, FALSE>>,
      <<115, 115, 518, FALSE>>, <<116, 116, 535, FALSE>>, <<119, 119, 536, FALSE>>,
      <<9, 9, 0, TRUE>>, <<32, 32, 0, TRUE>>, <<65, 90, 610, FALSE>>, <<95, 95, 610, FALSE>>,
      <<103, 122, 610, FALSE>>
    >>],
  (* 1 *) [accept |-> "", eof |-> -1, tr |-> <<<<32, 32, 3, FALSE>>, <<1, 127, 371, FALSE>>>>],
  (* 2 *) [accept |-> "", eof |-> -1, tr |-> <<<<32, 32, 61, FALSE>>>>],
  (* 3 *) [accept |-> "", eof |-> -1, tr |-> <<<<32, 32, 141, FALSE>>, <<110, 110, 167, FALSE>>>>],
  (* 4 *) [accept |-> "", eof |-> -1, tr |-> <<<<32, 32, 47, FALSE>>, <<58, 58, 272, FALSE>>>>],
  (* 5 *) [accept |-> "", eof |-> -1, tr |-> <<<<32, 32, 50, FALSE>>>>],
  (* 6 *) [accept |-> "", eof |-> -1, tr |-> <<<<32, 32, 183, FALSE>>>>],
  (* 7 *) [accept |-> "", eof |-> -1, tr |-> <<<<32, 32, 89, FALSE>>>>],
  (* 8 *) [accept |-> "", eof |-> -1, tr |-> <<<<32, 32, 217, FALSE>>>>],
  (* 9 *) [accept |-> "", eof |-> -1, tr |-> <<<<32, 32, 155, FALSE>>>>],
  (* 10 *) [accept |-> "", eof |-> -1, tr |-> <<<<32, 32, 221, FALSE>>>>],
  (* 11 *) [accept |-> "", eof |-> -1, tr |-> <<<<32, 32, 112, FALSE>>>>],
  (* 12 *) [accept |-> "", eof |-> -1, tr |-> <<<<32, 32, 222, FALSE>>>>],
  (* 13 *) [accept |-> "", eof |-> -1, tr |-> <<<<32, 32, 225, FALSE>>>>],
  (* 14 *) [accept |-> "", eof |-> -1, tr |-> <<<<32, 32, 228, FALSE>>>>],
  (* 15 *) [accept |-> "", eof |-> -1, tr |-> <<<<32, 32, 229, FALSE>>>>],
  (* 16 *) [accept |-> "", eof |-> -1, tr |-> <<<<32, 32, 231, FALSE>>>>],
  (* 17 *) [accept |-> "", eof |-> -1, tr |-> <<<<32, 32, 90, FALSE>>>>],
  (* 18 *) [accept |-> "", eof |-> -1, tr |-> <<<<32, 32, 91, FALSE>>>>],
  (* 19 *) [accept |-> "", eof |-> -1, tr |-> <<
      <<34, 34, 441, FALSE>>, <<40, 40, 462, FALSE>>, <<45, 45, 254, FALSE>>,
      <<91, 91, 445, FALSE>>, <<93, 93, 446, FALSE>>, <<99, 99, 485, FALSE>>,
      <<108, 108, 505, FALSE>>, <<9, 9, 19, TRUE>>, <<32, 32, 19, TRUE>>, <<48, 57, 439, FALSE>>,
      <<65, 90, 610, FALSE>>, <<95, 95, 610, FALSE>>, <<97, 122, 610, FALSE>>
    >>],
  (* 20 *) [accept |-> "", eof |-> -1, tr |-> <<
      <<34, 34, 441, FALSE>>, <<92, 92, 253, FALSE>>, <<9, 9, 442, FALSE>>, <<32, 32, 442, FALSE>>,
      <<1, 127, 443, FALSE>>
    >>],
  (* 21 *) [accept |-> "", eof |-> -1, tr |-> <<
      <<41, 41, 463, FALSE>>, <<42, 42, 449, FALSE>>, <<43, 43, 447, FALSE>>,
      <<45, 45, 448, FALSE>>, <<47, 47, 450, FALSE>>, <<91, 91, 445, FALSE>>,
      <<93, 93, 446, FALSE>>, <<97, 97, 499, FALSE>>, <<101, 101, 562, FALSE>>,
      <<105, 105, 582, FALSE>>, <<115, 115, 601, FALSE>>, <<9, 9, 21, TRUE>>, <<32, 32, 21, TRUE>>,
      <<65, 90, 610, FALSE>>, <<95, 95, 610, FALSE>>, <<98, 122, 610, FALSE>>
    >>],
  (* 22 *) [accept |-> "", eof |-> -1, tr |-> <<<<58, 58, 268, FALSE>>>>],
  (* 23 *) [accept |-> "", eof |-> -1, tr |-> <<<<58, 58, 382, FALSE>>>>],
  (* 24 *) [accept |-> "", eof |-> -1, tr |-> <<<<58, 58, 380, FALSE>>>>],
  (* 25 *) [accept |-> "", eof |-> -1, tr |-> <<<<58, 58, 384, FALSE>>>>],
  (* 26 *) [accept |-> "", eof |-> -1, tr |-> <<<<58, 58, 428, FALSE>>>>],
  (* 27 *) [accept |-> "", eof |-> -1, tr |-> <<<<58, 58, 270, FALSE>>>>],
  (* 28 *) [accept |-> "", eof |-> -1, tr |-> <<<<58, 58, 387, FALSE>>>>],
  (* 29 *) [accept |-> "", eof |-> -1, tr |-> <<<<58, 58, 388, FALSE>>>>],
  (* 30 *) [accept |-> "", eof |-> -1, tr |-> <<<<58, 58, 378, FALSE>>>>],
  (* 31 *) [accept |-> "", eof |-> -1, tr |-> <<<<58, 58, 386, FALSE>>>>],
  (* 32 *) [accept |-> "", eof |-> -1, tr |-> <<<<58, 58, 361, FALSE>>>>],
  (* 33 *) [accept |-> "", eof |-> -1, tr |-> <<<<58, 58, 431, FALSE>>>>],
  (* 34 *) [accept |-> "", eof |-> -1, tr |-> <<<<58, 58, 430, FALSE>>>>],
  (* 35 *) [accept |-> "", eof |-> -1, tr |-> <<<<97, 97, 251, FALSE>>>>],
  (* 36 *) [accept |-> "", eof |-> -1, tr |-> <<<<97, 97, 48, FALSE>>>>],
  (* 37 *) [accept |-> "", eof |-> -1, tr |-> <<<<97, 97, 122, FALSE>>>>],
  (* 38 *) [accept |-> "", eof |-> -1, tr |-> <<<<97, 97, 142, FALSE>>>>],
  (* 39 *) [accept |-> "", eof |-> -1, tr |-> <<<<97, 97, 220, FALSE>>>>],
  (* 40 *) [accept |-> "", eof |-> -1, tr |-> <<<<97, 97, 128, FALSE>>>>],
  (* 41 *) [accept |-> "", eof |-> -1, tr |-> <<<<97, 97, 143, FALSE>>>>],
  (* 42 *) [accept |-> "", eof |-> -1, tr |-> <<<<97, 97, 212, FALSE>>>>],
  (* 43 *) [accept |-> "", eof |-> -1, tr |-> <<<<97, 97, 189, FALSE>>>>],
  (* 44 *) [accept |-> "", eof |-> -1, tr |-> <<<<97, 97, 133, FALSE>>>>],
  (* 45 *) [accept |-> "", eof |-> -1, tr |-> <<<<97, 97, 134, FALSE>>>>],
  (* 46 *) [accept |-> "", eof |-> -1, tr |-> <<<<97, 97, 135, FALSE>>>>],
  (* 47 *) [accept |-> "", eof |-> -1, tr |-> <<<<98, 98, 125, FALSE>>>>],
  (* 48 *) [accept |-> "", eof |-> -1, tr |-> <<<<99, 99, 100, FALSE>>>>],
  (* 49 *) [accept |-> "", eof |-> -1, tr |-> <<<<99, 99, 120, FALSE>>>>],
  (* 50 *) [accept |-> "", eof |-> -1, tr |-> <<<<99, 99, 166, FALSE>>>>],
  (* 51 *) [accept |-> "", eof |-> -1, tr |-> <<<<99, 99, 54, FALSE>>>>],
  (* 52 *) [accept |-> "", eof |-> -1, tr |-> <<<<99, 99, 126, FALSE>>>>],
  (* 53 *) [accept |-> "", eof |-> -1, tr |-> <<<<99, 99, 223, FALSE>>>>],
  (* 54 *) [accept |-> "", eof |-> -1, tr |-> <<<<99, 99, 85, FALSE>>>>],
  (* 55 *) [accept |-> "", eof |-> -1, tr |-> <<<<100, 100, 56, FALSE>>, <<116, 116, 224, FALSE>>>>],
  (* 56 *) [accept |-> "", eof |-> -1, tr |-> <<<<100, 100, 432, FALSE>>>>],
  (* 57 *) [accept |-> "", eof |-> -1, tr |-> <<<<100, 100, 1, FALSE>>, <<1, 127, 369, FALSE>>>>],
  (* 58 *) [accept |-> "", eof |-> -1, tr |-> <<<<100, 100, 9, FALSE>>>>],
  (* 59 *) [accept |-> "", eof |-> -1, tr |-> <<<<100, 100, 116, FALSE>>>>],
  (* 60 *) [accept |-> "", eof |-> -1, tr |-> <<
      <<101, 101, 179, FALSE>>, <<103, 103, 190, FALSE>>, <<105, 105, 140, FALSE>>,
      <<108, 108, 70, FALSE>>, <<110, 110, 156, FALSE>>
    >>],
  (* 61 *) [accept |-> "", eof |-> -1, tr |-> <<<<101, 101, 36, FALSE>>>>],
  (* 62 *) [accept |-> "", eof |-> -1, tr |-> <<<<101, 101, 363, FALSE>>>>],
  (* 63 *) [accept |-> "", eof |-> -1, tr |-> <<<<101, 101, 137, FALSE>>, <<105, 105, 203, FALSE>>>>],
  (* 64 *) [accept |-> "", eof |-> -1, tr |-> <<<<101, 101, 136, FALSE>>>>],
  (* 65 *) [accept |-> "", eof |-> -1, tr |-> <<<<101, 101, 4, FALSE>>>>],
  (* 66 *) [accept |-> "", eof |-> -1, tr |-> <<<<101, 101, 425, FALSE>>>>],
  (* 67 *) [accept |-> "", eof |-> -1, tr |-> <<<<101, 101, 436, FALSE>>>>],
  (* 68 *) [accept |-> "", eof |-> -1, tr |-> <<<<101, 101, 418, FALSE>>>>],
  (* 69 *) [accept |-> "", eof |-> -1, tr |-> <<
      <<101, 101, 148, FALSE>>, <<9, 9, 364, FALSE>>, <<32, 32, 364, FALSE>>, <<1, 127, 365, FALSE>>
    >>],
  (* 70 *) [accept |-> "", eof |-> -1, tr |-> <<<<101, 101, 199, FALSE>>>>],
  (* 71 *) [accept |-> "", eof |-> -1, tr |-> <<<<101, 101, 193, FALSE>>>>],
  (* 72 *) [accept |-> "", eof |-> -1, tr |-> <<<<101, 101, 39, FALSE>>>>],
  (* 73 *) [accept |-> "", eof |-> -1, tr |-> <<<<101, 101, 33, FALSE>>>>],
  (* 74 *) [accept |-> "", eof |-> -1, tr |-> <<<<101, 101, 175, FALSE>>>>],
  (* 75 *) [accept |-> "", eof |-> -1, tr |-> <<<<101, 101, 175, FALSE>>, <<111, 111, 192, FALSE>>>>],
  (* 76 *) [accept |-> "", eof |-> -1, tr |-> <<
      <<101, 101, 52, FALSE>>, <<105, 105, 197, FALSE>>, <<111, 111, 22, FALSE>>
    >>],
  (* 77 *) [accept |-> "", eof |-> -1, tr |-> <<<<101, 101, 53, FALSE>>>>],
  (* 78 *) [accept |-> "", eof |-> -1, tr |-> <<<<101, 101, 154, FALSE>>>>],
  (* 79 *) [accept |-> "", eof |-> -1, tr |-> <<<<101, 101, 191, FALSE>>>>],
  (* 80 *) [accept |-> "", eof |-> -1, tr |-> <<<<101, 101, 27, FALSE>>>>],
  (* 81 *) [accept |-> "", eof |-> -1, tr |-> <<<<101, 101, 209, FALSE>>, <<116, 116, 75, FALSE>>>>],
  (* 82 *) [accept |-> "", eof |-> -1, tr |-> <<<<101, 101, 209, FALSE>>, <<116, 116, 74, FALSE>>>>],
  (* 83 *) [accept |-> "", eof |-> -1, tr |-> <<<<101, 101, 201, FALSE>>>>],
  (* 84 *) [accept |-> "", eof |-> -1, tr |-> <<<<101, 101, 132, FALSE>>, <<117, 117, 111, FALSE>>>>],
  (* 85 *) [accept |-> "", eof |-> -1, tr |-> <<<<101, 101, 202, FALSE>>>>],
  (* 86 *) [accept |-> "", eof |-> -1, tr |-> <<<<101, 101, 42, FALSE>>>>],
  (* 87 *) [accept |-> "", eof |-> -1, tr |-> <<<<101, 101, 186, FALSE>>>>],
  (* 88 *) [accept |-> "", eof |-> -1, tr |-> <<<<101, 101, 138, FALSE>>, <<105, 105, 203, FALSE>>>>],
  (* 89 *) [accept |-> "", eof |-> -1, tr |-> <<<<101, 101, 180, FALSE>>>>],
  (* 90 *) [accept |-> "", eof |-> -1, tr |-> <<<<101, 101, 181, FALSE>>>>],
  (* 91 *) [accept |-> "", eof |-> -1, tr |-> <<<<101, 101, 182, FALSE>>>>],
  (* 92 *) [accept |-> "", eof |-> -1, tr |-> <<<<102, 102, 461, FALSE>>>>],
  (* 93 *) [accept |-> "", eof |-> -1, tr |-> <<<<102, 102, 417, FALSE>>>>],
  (* 94 *) [accept |-> "", eof |-> -1, tr |-> <<<<102, 102, 412, FALSE>>, <<110, 110, 176, FALSE>>>>],
  (* 95 *) [accept |-> "", eof |-> -1, tr |-> <<<<102, 102, 413, FALSE>>, <<110, 110, 176, FALSE>>>>],
  (* 96 *) [accept |-> "", eof |-> -1, tr |-> <<<<102, 102, 237, FALSE>>>>],
  (* 97 *) [accept |-> "", eof |-> -1, tr |-> <<<<103, 103, 206, FALSE>>>>],
  (* 98 *) [accept |-> "", eof |-> -1, tr |-> <<<<103, 103, 6, FALSE>>>>],
  (* 99 *) [accept |-> "", eof |-> -1, tr |-> <<<<103, 103, 30, FALSE>>>>],
  (* 100 *) [accept |-> "", eof |-> -1, tr |-> <<<<104, 104, 423, FALSE>>>>],
  (* 101 *) [accept |-> "", eof |-> -1, tr |-> <<<<104, 104, 459, FALSE>>>>],
  (* 102 *) [accept |-> "", eof |-> -1, tr |-> <<<<104, 104, 458, FALSE>>>>],
  (* 103 *) [accept |-> "", eof |-> -1, tr |-> <<<<104, 104, 38, FALSE>>>>],
  (* 104 *) [accept |-> "", eof |-> -1, tr |-> <<<<104, 104, 78, FALSE>>>>],
  (* 105 *) [accept |-> "", eof |-> -1, tr |-> <<<<104, 104, 79, FALSE>>>>],
  (* 106 *) [accept |-> "", eof |-> -1, tr |-> <<<<104, 104, 41, FALSE>>>>],
  (* 107 *) [accept |-> "", eof |-> -1, tr |-> <<<<104, 104, 114, FALSE>>>>],
  (* 108 *) [accept |-> "", eof |-> -1, tr |-> <<<<105, 105, 93, FALSE>>>>],
  (* 109 *) [accept |-> "", eof |-> -1, tr |-> <<<<105, 105, 152, FALSE>>>>],
  (* 110 *) [accept |-> "", eof |-> -1, tr |-> <<<<105, 105, 214, FALSE>>>>],
  (* 111 *) [accept |-> "", eof |-> -1, tr |-> <<<<105, 105, 123, FALSE>>>>],
  (* 112 *) [accept |-> "", eof |-> -1, tr |-> <<<<105, 105, 144, FALSE>>>>],
  (* 113 *) [accept |-> "", eof |-> -1, tr |-> <<<<105, 105, 219, FALSE>>>>],
  (* 114 *) [accept |-> "", eof |-> -1, tr |-> <<<<105, 105, 130, FALSE>>>>],
  (* 115 *) [accept |-> "", eof |-> -1, tr |-> <<<<105, 105, 146, FALSE>>>>],
  (* 116 *) [accept |-> "", eof |-> -1, tr |-> <<<<105, 105, 150, FALSE>>>>],
  (* 117 *) [accept |-> "", eof |-> -1, tr |-> <<<<105, 105, 210, FALSE>>>>],
  (* 118 *) [accept |-> "", eof |-> -1, tr |-> <<<<105, 105, 210, FALSE>>, <<112, 112, 77, FALSE>>>>],
  (* 119 *) [accept |-> "", eof |-> -1, tr |-> <<<<105, 105, 205, FALSE>>>>],
  (* 120 *) [accept |-> "", eof |-> -1, tr |-> <<<<107, 107, 32, FALSE>>>>],
  (* 121 *) [accept |-> "", eof |-> -1, tr |-> <<<<108, 108, 394, FALSE>>>>],
  (* 122 *) [accept |-> "", eof |-> -1, tr |-> <<<<108, 108, 12, FALSE>>>>],
  (* 123 *) [accept |-> "", eof |-> -1, tr |-> <<<<108, 108, 59, FALSE>>>>],
  (* 124 *) [accept |-> "", eof |-> -1, tr |-> <<<<108, 108, 34, FALSE>>>>],
  (* 125 *) [accept |-> "", eof |-> -1, tr |-> <<<<108, 108, 169, FALSE>>>>],
  (* 126 *) [accept |-> "", eof |-> -1, tr |-> <<<<108, 108, 43, FALSE>>>>],
  (* 127 *) [accept |-> "", eof |-> -1, tr |-> <<<<108, 108, 35, FALSE>>>>],
  (* 128 *) [accept |-> "", eof |-> -1, tr |-> <<<<108, 108, 121, FALSE>>>>],
  (* 129 *) [accept |-> "", eof |-> -1, tr |-> <<<<108, 108, 173, FALSE>>, <<111, 111, 184, FALSE>>>>],
  (* 130 *) [accept |-> "", eof |-> -1, tr |-> <<<<108, 108, 66, FALSE>>>>],
  (* 131 *) [accept |-> "", eof |-> -1, tr |-> <<<<108, 108, 218, FALSE>>>>],
  (* 132 *) [accept |-> "", eof |-> -1, tr |-> <<<<108, 108, 172, FALSE>>>>],
  (* 133 *) [accept |-> "", eof |-> -1, tr |-> <<<<108, 108, 13, FALSE>>>>],
  (* 134 *) [accept |-> "", eof |-> -1, tr |-> <<<<108, 108, 14, FALSE>>>>],
  (* 135 *) [accept |-> "", eof |-> -1, tr |-> <<<<108, 108, 15, FALSE>>>>],
  (* 136 *) [accept |-> "", eof |-> -1, tr |-> <<<<109, 109, 178, FALSE>>>>],
  (* 137 *) [accept |-> "", eof |-> -1, tr |-> <<
      <<109, 109, 165, FALSE>>, <<112, 112, 86, FALSE>>, <<116, 116, 239, FALSE>>
    >>],
  (* 138 *) [accept |-> "", eof |-> -1, tr |-> <<
      <<109, 109, 165, FALSE>>, <<112, 112, 86, FALSE>>, <<116, 116, 241, FALSE>>
    >>],
  (* 139 *) [accept |-> "", eof |-> -1, tr |-> <<<<110, 110, 198, FALSE>>>>],
  (* 140 *) [accept |-> "", eof |-> -1, tr |-> <<<<110, 110, 460, FALSE>>>>],
  (* 141 *) [accept |-> "", eof |-> -1, tr |-> <<<<110, 110, 157, FALSE>>, <<1, 127, 374, FALSE>>>>],
  (* 142 *) [accept |-> "", eof |-> -1, tr |-> <<<<110, 110, 453, FALSE>>>>],
  (* 143 *) [accept |-> "", eof |-> -1, tr |-> <<<<110, 110, 454, FALSE>>>>],
  (* 144 *) [accept |-> "", eof |-> -1, tr |-> <<<<110, 110, 397, FALSE>>>>],
  (* 145 *) [accept |-> "", eof |-> -1, tr |-> <<<<110, 110, 404, FALSE>>>>],
  (* 146 *) [accept |-> "", eof |-> -1, tr |-> <<<<110, 110, 98, FALSE>>>>],
  (* 147 *) [accept |-> "", eof |-> -1, tr |-> <<<<110, 110, 406, FALSE>>>>],
  (* 148 *) [accept |-> "", eof |-> -1, tr |-> <<<<110, 110, 57, FALSE>>, <<1, 127, 366, FALSE>>>>],
  (* 149 *) [accept |-> "", eof |-> -1, tr |-> <<<<110, 110, 58, FALSE>>, <<120, 120, 117, FALSE>>>>],
  (* 150 *) [accept |-> "", eof |-> -1, tr |-> <<<<110, 110, 99, FALSE>>>>],
  (* 151 *) [accept |-> "", eof |-> -1, tr |-> <<<<110, 110, 97, FALSE>>>>],
  (* 152 *) [accept |-> "", eof |-> -1, tr |-> <<<<110, 110, 238, FALSE>>>>],
  (* 153 *) [accept |-> "", eof |-> -1, tr |-> <<<<110, 110, 213, FALSE>>>>],
  (* 154 *) [accept |-> "", eof |-> -1, tr |-> <<<<110, 110, 5, FALSE>>>>],
  (* 155 *) [accept |-> "", eof |-> -1, tr |-> <<<<110, 110, 167, FALSE>>>>],
  (* 156 *) [accept |-> "", eof |-> -1, tr |-> <<<<111, 111, 207, FALSE>>>>],
  (* 157 *) [accept |-> "", eof |-> -1, tr |-> <<<<111, 111, 208, FALSE>>, <<1, 127, 375, FALSE>>>>],
  (* 158 *) [accept |-> "", eof |-> -1, tr |-> <<<<111, 111, 457, FALSE>>>>],
  (* 159 *) [accept |-> "", eof |-> -1, tr |-> <<<<111, 111, 92, FALSE>>>>],
  (* 160 *) [accept |-> "", eof |-> -1, tr |-> <<<<111, 111, 31, FALSE>>>>],
  (* 161 *) [accept |-> "", eof |-> -1, tr |-> <<<<111, 111, 451, FALSE>>>>],
  (* 162 *) [accept |-> "", eof |-> -1, tr |-> <<<<111, 111, 452, FALSE>>>>],
  (* 163 *) [accept |-> "", eof |-> -1, tr |-> <<<<111, 111, 455, FALSE>>>>],
  (* 164 *) [accept |-> "", eof |-> -1, tr |-> <<<<111, 111, 456, FALSE>>>>],
  (* 165 *) [accept |-> "", eof |-> -1, tr |-> <<<<111, 111, 245, FALSE>>>>],
  (* 166 *) [accept |-> "", eof |-> -1, tr |-> <<<<111, 111, 153, FALSE>>>>],
  (* 167 *) [accept |-> "", eof |-> -1, tr |-> <<<<111, 111, 215, FALSE>>>>],
  (* 168 *) [accept |-> "", eof |-> -1, tr |-> <<<<111, 111, 194, FALSE>>>>],
  (* 169 *) [accept |-> "", eof |-> -1, tr |-> <<<<111, 111, 49, FALSE>>>>],
  (* 170 *) [accept |-> "", eof |-> -1, tr |-> <<<<111, 111, 185, FALSE>>>>],
  (* 171 *) [accept |-> "", eof |-> -1, tr |-> <<<<111, 111, 227, FALSE>>>>],
  (* 172 *) [accept |-> "", eof |-> -1, tr |-> <<<<111, 111, 151, FALSE>>>>],
  (* 173 *) [accept |-> "", eof |-> -1, tr |-> <<<<111, 111, 170, FALSE>>>>],
  (* 174 *) [accept |-> "", eof |-> -1, tr |-> <<<<111, 111, 195, FALSE>>>>],
  (* 175 *) [accept |-> "", eof |-> -1, tr |-> <<<<112, 112, 23, FALSE>>>>],
  (* 176 *) [accept |-> "", eof |-> -1, tr |-> <<<<112, 112, 240, FALSE>>>>],
  (* 177 *) [accept |-> "", eof |-> -1, tr |-> <<<<112, 112, 127, FALSE>>>>],
  (* 178 *) [accept |-> "", eof |-> -1, tr |-> <<<<112, 112, 226, FALSE>>>>],
  (* 179 *) [accept |-> "", eof |-> -1, tr |-> <<<<113, 113, 233, FALSE>>>>],
  (* 180 *) [accept |-> "", eof |-> -1, tr |-> <<<<113, 113, 242, FALSE>>>>],
  (* 181 *) [accept |-> "", eof |-> -1, tr |-> <<<<113, 113, 243, FALSE>>>>],
  (* 182 *) [accept |-> "", eof |-> -1, tr |-> <<<<113, 113, 244, FALSE>>>>],
  (* 183 *) [accept |-> "", eof |-> -1, tr |-> <<<<114, 114, 83, FALSE>>>>],
  (* 184 *) [accept |-> "", eof |-> -1, tr |-> <<<<114, 114, 2, FALSE>>>>],
  (* 185 *) [accept |-> "", eof |-> -1, tr |-> <<<<114, 114, 24, FALSE>>>>],
  (* 186 *) [accept |-> "", eof |-> -1, tr |-> <<<<114, 114, 25, FALSE>>>>],
  (* 187 *) [accept |-> "", eof |-> -1, tr |-> <<<<114, 114, 145, FALSE>>>>],
  (* 188 *) [accept |-> "", eof |-> -1, tr |-> <<<<114, 114, 147, FALSE>>>>],
  (* 189 *) [accept |-> "", eof |-> -1, tr |-> <<<<114, 114, 80, FALSE>>>>],
  (* 190 *) [accept |-> "", eof |-> -1, tr |-> <<<<114, 114, 72, FALSE>>>>],
  (* 191 *) [accept |-> "", eof |-> -1, tr |-> <<<<114, 114, 247, FALSE>>>>],
  (* 192 *) [accept |-> "", eof |-> -1, tr |-> <<<<114, 114, 115, FALSE>>>>],
  (* 193 *) [accept |-> "", eof |-> -1, tr |-> <<<<114, 114, 16, FALSE>>>>],
  (* 194 *) [accept |-> "", eof |-> -1, tr |-> <<<<114, 114, 17, FALSE>>>>],
  (* 195 *) [accept |-> "", eof |-> -1, tr |-> <<<<114, 114, 18, FALSE>>>>],
  (* 196 *) [accept |-> "", eof |-> -1, tr |-> <<<<115, 115, 8, FALSE>>>>],
  (* 197 *) [accept |-> "", eof |-> -1, tr |-> <<<<115, 115, 177, FALSE>>>>],
  (* 198 *) [accept |-> "", eof |-> -1, tr |-> <<<<115, 115, 234, FALSE>>>>],
  (* 199 *) [accept |-> "", eof |-> -1, tr |-> <<<<115, 115, 196, FALSE>>>>],
  (* 200 *) [accept |-> "", eof |-> -1, tr |-> <<<<115, 115, 96, FALSE>>>>],
  (* 201 *) [accept |-> "", eof |-> -1, tr |-> <<<<115, 115, 235, FALSE>>>>],
  (* 202 *) [accept |-> "", eof |-> -1, tr |-> <<<<115, 115, 200, FALSE>>>>],
  (* 203 *) [accept |-> "", eof |-> -1, tr |-> <<<<115, 115, 87, FALSE>>>>],
  (* 204 *) [accept |-> "", eof |-> -1, tr |-> <<<<115, 115, 28, FALSE>>>>],
  (* 205 *) [accept |-> "", eof |-> -1, tr |-> <<<<115, 115, 68, FALSE>>>>],
  (* 206 *) [accept |-> "", eof |-> -1, tr |-> <<<<115, 115, 10, FALSE>>>>],
  (* 207 *) [accept |-> "", eof |-> -1, tr |-> <<<<116, 116, 7, FALSE>>>>],
  (* 208 *) [accept |-> "", eof |-> -1, tr |-> <<<<116, 116, 256, FALSE>>, <<1, 127, 376, FALSE>>>>],
  (* 209 *) [accept |-> "", eof |-> -1, tr |-> <<<<116, 116, 391, FALSE>>>>],
  (* 210 *) [accept |-> "", eof |-> -1, tr |-> <<<<116, 116, 409, FALSE>>>>],
  (* 211 *) [accept |-> "", eof |-> -1, tr |-> <<<<116, 116, 401, FALSE>>>>],
  (* 212 *) [accept |-> "", eof |-> -1, tr |-> <<<<116, 116, 420, FALSE>>>>],
  (* 213 *) [accept |-> "", eof |-> -1, tr |-> <<<<116, 116, 109, FALSE>>>>],
  (* 214 *) [accept |-> "", eof |-> -1, tr |-> <<<<116, 116, 101, FALSE>>>>],
  (* 215 *) [accept |-> "", eof |-> -1, tr |-> <<<<116, 116, 62, FALSE>>>>],
  (* 216 *) [accept |-> "", eof |-> -1, tr |-> <<<<116, 116, 158, FALSE>>>>],
  (* 217 *) [accept |-> "", eof |-> -1, tr |-> <<<<116, 116, 103, FALSE>>>>],
  (* 218 *) [accept |-> "", eof |-> -1, tr |-> <<<<116, 116, 11, FALSE>>>>],
  (* 219 *) [accept |-> "", eof |-> -1, tr |-> <<<<116, 116, 102, FALSE>>>>],
  (* 220 *) [accept |-> "", eof |-> -1, tr |-> <<<<116, 116, 71, FALSE>>>>],
  (* 221 *) [accept |-> "", eof |-> -1, tr |-> <<<<116, 116, 160, FALSE>>>>],
  (* 222 *) [accept |-> "", eof |-> -1, tr |-> <<<<116, 116, 161, FALSE>>>>],
  (* 223 *) [accept |-> "", eof |-> -1, tr |-> <<<<116, 116, 204, FALSE>>>>],
  (* 224 *) [accept |-> "", eof |-> -1, tr |-> <<<<116, 116, 64, FALSE>>>>],
  (* 225 *) [accept |-> "", eof |-> -1, tr |-> <<<<116, 116, 162, FALSE>>>>],
  (* 226 *) [accept |-> "", eof |-> -1, tr |-> <<<<116, 116, 26, FALSE>>>>],
  (* 227 *) [accept |-> "", eof |-> -1, tr |-> <<<<116, 116, 65, FALSE>>>>],
  (* 228 *) [accept |-> "", eof |-> -1, tr |-> <<<<116, 116, 163, FALSE>>>>],
  (* 229 *) [accept |-> "", eof |-> -1, tr |-> <<<<116, 116, 164, FALSE>>>>],
  (* 230 *) [accept |-> "", eof |-> -1, tr |-> <<<<116, 116, 105, FALSE>>>>],
  (* 231 *) [accept |-> "", eof |-> -1, tr |-> <<<<116, 116, 106, FALSE>>>>],
  (* 232 *) [accept |-> "", eof |-> -1, tr |-> <<<<117, 117, 139, FALSE>>>>],
  (* 233 *) [accept |-> "", eof |-> -1, tr |-> <<<<117, 117, 37, FALSE>>>>],
  (* 234 *) [accept |-> "", eof |-> -1, tr |-> <<<<117, 117, 51, FALSE>>>>],
  (* 235 *) [accept |-> "", eof |-> -1, tr |-> <<<<117, 117, 131, FALSE>>>>],
  (* 236 *) [accept |-> "", eof |-> -1, tr |-> <<<<117, 117, 111, FALSE>>>>],
  (* 237 *) [accept |-> "", eof |-> -1, tr |-> <<<<117, 117, 124, FALSE>>>>],
  (* 238 *) [accept |-> "", eof |-> -1, tr |-> <<<<117, 117, 73, FALSE>>>>],
  (* 239 *) [accept |-> "", eof |-> -1, tr |-> <<<<117, 117, 187, FALSE>>>>],
  (* 240 *) [accept |-> "", eof |-> -1, tr |-> <<<<117, 117, 211, FALSE>>>>],
  (* 241 *) [accept |-> "", eof |-> -1, tr |-> <<<<117, 117, 188, FALSE>>>>],
  (* 242 *) [accept |-> "", eof |-> -1, tr |-> <<<<117, 117, 44, FALSE>>>>],
  (* 243 *) [accept |-> "", eof |-> -1, tr |-> <<<<117, 117, 45, FALSE>>>>],
  (* 244 *) [accept |-> "", eof |-> -1, tr |-> <<<<117, 117, 46, FALSE>>>>],
  (* 245 *) [accept |-> "", eof |-> -1, tr |-> <<<<118, 118, 67, FALSE>>>>],
  (* 246 *) [accept |-> "", eof |-> -1, tr |-> <<<<119, 119, 110, FALSE>>>>],
  (* 247 *) [accept |-> "", eof |-> -1, tr |-> <<<<119, 119, 119, FALSE>>>>],
  (* 248 *) [accept |-> "", eof |-> -1, tr |-> <<<<119, 119, 113, FALSE>>>>],
  (* 249 *) [accept |-> "", eof |-> -1, tr |-> <<<<120, 120, 118, FALSE>>>>],
  (* 250 *) [accept |-> "", eof |-> -1, tr |-> <<<<120, 120, 117, FALSE>>>>],
  (* 251 *) [accept |-> "", eof |-> -1, tr |-> <<<<121, 121, 398, FALSE>>>>],
  (* 252 *) [accept |-> "", eof |-> -1, tr |-> <<
      <<9, 9, 252, TRUE>>, <<32, 32, 252, TRUE>>, <<65, 90, 610, FALSE>>, <<95, 95, 610, FALSE>>,
      <<97, 122, 610, FALSE>>
    >>],
  (* 253 *) [accept |-> "", eof |-> -1, tr |-> <<
      <<34, 34, 444, FALSE>>, <<92, 92, 444, FALSE>>, <<110, 110, 444, FALSE>>,
      <<114, 114, 444, FALSE>>, <<116, 116, 444, FALSE>>
    >>],
  (* 254 *) [accept |-> "", eof |-> -1, tr |-> <<<<48, 57, 439, FALSE>>>>],
  (* 255 *) [accept |-> "", eof |-> -1, tr |-> <<<<48, 57, 440, FALSE>>>>],
  (* 256 *) [accept |-> "", eof |-> -1, tr |-> <<<<1, 100, 377, FALSE>>, <<102, 127, 377, FALSE>>>>],
  (* 257 *) [accept |-> "", eof |-> 267, tr |-> <<
      <<10, 10, 611, FALSE>>, <<34, 34, 441, FALSE>>, <<40, 40, 462, FALSE>>,
      <<45, 45, 254, FALSE>>, <<91, 91, 445, FALSE>>, <<97, 97, 498, FALSE>>,
      <<98, 98, 602, FALSE>>, <<99, 99, 485, FALSE>>, <<100, 100, 504, FALSE>>,
      <<101, 101, 608, FALSE>>, <<102, 102, 545, FALSE>>, <<105, 105, 528, FALSE>>,
      <<108, 108, 505, FALSE>>, <<110, 110, 565, FALSE>>, <<114, 114, 525, FALSE>>,
      <<115, 115, 521, FALSE>>, <<119, 119, 536, FALSE>>, <<9, 9, 257, TRUE>>,
      <<32, 32, 257, TRUE>>, <<48, 57, 439, FALSE>>, <<65, 90, 610, FALSE>>,
      <<95, 95, 610, FALSE>>, <<103, 122, 610, FALSE>>
    >>],
  (* 258 *) [accept |-> "", eof |-> 267, tr |-> <<
      <<10, 10, 611, FALSE>>, <<41, 41, 463, FALSE>>, <<42, 42, 449, FALSE>>,
      <<43, 43, 447, FALSE>>, <<44, 44, 389, FALSE>>, <<45, 45, 448, FALSE>>,
      <<47, 47, 450, FALSE>>, <<91, 91, 445, FALSE>>, <<93, 93, 446, FALSE>>,
      <<97, 97, 493, FALSE>>, <<98, 98, 602, FALSE>>, <<99, 99, 485, FALSE>>,
      <<100, 100, 504, FALSE>>, <<101, 101, 561, FALSE>>, <<102, 102, 545, FALSE>>,
      <<105, 105, 527, FALSE>>, <<110, 110, 565, FALSE>>, <<111, 111, 595, FALSE>>,
      <<114, 114, 525, FALSE>>, <<115, 115, 518, FALSE>>, <<119, 119, 536, FALSE>>,
      <<9, 9, 258, TRUE>>, <<32, 32, 258, TRUE>>, <<65, 90, 610, FALSE>>, <<95, 95, 610, FALSE>>,
      <<103, 122, 610, FALSE>>
    >>],
  (* 259 *) [accept |-> "", eof |-> 267, tr |-> <<
      <<10, 10, 611, FALSE>>, <<41, 41, 463, FALSE>>, <<42, 42, 449, FALSE>>,
      <<43, 43, 447, FALSE>>, <<44, 44, 389, FALSE>>, <<45, 45, 448, FALSE>>,
      <<47, 47, 450, FALSE>>, <<91, 91, 445, FALSE>>, <<93, 93, 446, FALSE>>,
      <<97, 97, 493, FALSE>>, <<98, 98, 602, FALSE>>, <<99, 99, 485, FALSE>>,
      <<100, 100, 504, FALSE>>, <<101, 101, 561, FALSE>>, <<102, 102, 545, FALSE>>,
      <<105, 105, 527, FALSE>>, <<110, 110, 565, FALSE>>, <<111, 111, 595, FALSE>>,
      <<114, 114, 525, FALSE>>, <<115, 115, 519, FALSE>>, <<119, 119, 536, FALSE>>,
      <<9, 9, 259, TRUE>>, <<32, 32, 259, TRUE>>, <<65, 90, 610, FALSE>>, <<95, 95, 610, FALSE>>,
      <<103, 122, 610, FALSE>>
    >>],
  (* 260 *) [accept |-> "", eof |-> 267, tr |-> <<
      <<10, 10, 611, FALSE>>, <<42, 42, 449, FALSE>>, <<43, 43, 447, FALSE>>,
      <<44, 44, 389, FALSE>>, <<45, 45, 448, FALSE>>, <<47, 47, 450, FALSE>>,
      <<91, 91, 445, FALSE>>, <<93, 93, 446, FALSE>>, <<97, 97, 493, FALSE>>,
      <<98, 98, 602, FALSE>>, <<99, 99, 485, FALSE>>, <<100, 100, 504, FALSE>>,
      <<101, 101, 561, FALSE>>, <<102, 102, 545, FALSE>>, <<105, 105, 527, FALSE>>,
      <<110, 110, 565, FALSE>>, <<114, 114, 525, FALSE>>, <<115, 115, 518, FALSE>>,
      <<119, 119, 536, FALSE>>, <<9, 9, 260, TRUE>>, <<32, 32, 260, TRUE>>, <<65, 90, 610, FALSE>>,
      <<95, 95, 610, FALSE>>, <<103, 122, 610, FALSE>>
    >>],
  (* 261 *) [accept |-> "", eof |-> 267, tr |-> <<
      <<10, 10, 611, FALSE>>, <<42, 42, 449, FALSE>>, <<43, 43, 447, FALSE>>,
      <<45, 45, 448, FALSE>>, <<47, 47, 450, FALSE>>, <<91, 91, 445, FALSE>>,
      <<97, 97, 493, FALSE>>, <<98, 98, 602, FALSE>>, <<99, 99, 485, FALSE>>,
      <<100, 100, 504, FALSE>>, <<101, 101, 561, FALSE>>, <<102, 102, 545, FALSE>>,
      <<105, 105, 527, FALSE>>, <<110, 110, 565, FALSE>>, <<114, 114, 525, FALSE>>,
      <<115, 115, 519, FALSE>>, <<119, 119, 536, FALSE>>, <<9, 9, 261, TRUE>>,
      <<32, 32, 261, TRUE>>, <<65, 90, 610, FALSE>>, <<95, 95, 610, FALSE>>,
      <<103, 122, 610, FALSE>>
    >>],
  (* 262 *) [accept |-> "", eof |-> 267, tr |-> <<
      <<10, 10, 611, FALSE>>, <<44, 44, 389, FALSE>>, <<61, 61, 390, FALSE>>,
      <<93, 93, 446, FALSE>>, <<97, 97, 55, FALSE>>, <<98, 98, 236, FALSE>>, <<99, 99, 40, FALSE>>,
      <<100, 100, 76, FALSE>>, <<101, 101, 149, FALSE>>, <<102, 102, 129, FALSE>>,
      <<105, 105, 94, FALSE>>, <<110, 110, 171, FALSE>>, <<111, 111, 230, FALSE>>,
      <<114, 114, 63, FALSE>>, <<115, 115, 81, FALSE>>, <<116, 116, 104, FALSE>>,
      <<119, 119, 107, FALSE>>, <<9, 9, 262, TRUE>>, <<32, 32, 262, TRUE>>
    >>],
  (* 263 *) [accept |-> "", eof |-> 267, tr |-> <<
      <<10, 10, 611, FALSE>>, <<44, 44, 389, FALSE>>, <<97, 97, 55, FALSE>>, <<98, 98, 84, FALSE>>,
      <<99, 99, 40, FALSE>>, <<100, 100, 76, FALSE>>, <<101, 101, 249, FALSE>>,
      <<102, 102, 129, FALSE>>, <<105, 105, 94, FALSE>>, <<110, 110, 171, FALSE>>,
      <<114, 114, 88, FALSE>>, <<115, 115, 82, FALSE>>, <<119, 119, 107, FALSE>>,
      <<9, 9, 263, TRUE>>, <<32, 32, 263, TRUE>>
    >>],
  (* 264 *) [accept |-> "", eof |-> 267, tr |-> <<
      <<10, 10, 611, FALSE>>, <<97, 97, 55, FALSE>>, <<98, 98, 236, FALSE>>, <<99, 99, 40, FALSE>>,
      <<100, 100, 76, FALSE>>, <<101, 101, 250, FALSE>>, <<102, 102, 129, FALSE>>,
      <<105, 105, 95, FALSE>>, <<110, 110, 171, FALSE>>, <<114, 114, 63, FALSE>>,
      <<115, 115, 82, FALSE>>, <<116, 116, 104, FALSE>>, <<119, 119, 107, FALSE>>,
      <<9, 9, 264, TRUE>>, <<32, 32, 264, TRUE>>
    >>],
  (* 265 *) [accept |-> "", eof |-> 267, tr |-> <<
      <<10, 10, 611, FALSE>>, <<97, 97, 498, FALSE>>, <<98, 98, 602, FALSE>>,
      <<99, 99, 485, FALSE>>, <<100, 100, 504, FALSE>>, <<101, 101, 608, FALSE>>,
      <<102, 102, 545, FALSE>>, <<105, 105, 528, FALSE>>, <<110, 110, 565, FALSE>>,
      <<114, 114, 525, FALSE>>, <<115, 115, 521, FALSE>>, <<119, 119, 536, FALSE>>,
      <<9, 9, 265, TRUE>>, <<32, 32, 265, TRUE>>, <<65, 90, 610, FALSE>>, <<95, 95, 610, FALSE>>,
      <<103, 122, 610, FALSE>>
    >>],
  (* 266 *) [accept |-> "", eof |-> 267, tr |-> <<
      <<10, 10, 611, FALSE>>, <<97, 97, 498, FALSE>>, <<98, 98, 602, FALSE>>,
      <<99, 99, 485, FALSE>>, <<100, 100, 504, FALSE>>, <<101, 101, 608, FALSE>>,
      <<102, 102, 545, FALSE>>, <<105, 105, 528, FALSE>>, <<110, 110, 565, FALSE>>,
      <<114, 114, 525, FALSE>>, <<115, 115, 520, FALSE>>, <<119, 119, 536, FALSE>>,
      <<9, 9, 266, TRUE>>, <<32, 32, 266, TRUE>>, <<65, 90, 610, FALSE>>, <<95, 95, 610, FALSE>>,
      <<103, 122, 610, FALSE>>
    >>],
  (* 267 *) [accept |-> "ts_builtin_sym_end", eof |-> -1, tr |-> <<>>],
  (* 268 *) [accept |-> "anon_sym_do_COLON", eof |-> -1, tr |-> <<>>],
  (* 269 *) [accept |-> "anon_sym_do_COLON", eof |-> -1, tr |-> <<
      <<1, 9, 359, FALSE>>, <<11, 127, 359, FALSE>>
    >>],
  (* 270 *) [accept |-> "anon_sym_declare_COLON", eof |-> -1, tr |-> <<>>],
  (* 271 *) [accept |-> "anon_sym_declare_COLON", eof |-> -1, tr |-> <<
      <<1, 9, 359, FALSE>>, <<11, 127, 359, FALSE>>
    >>],
  (* 272 *) [accept |-> "anon_sym_note_COLON", eof |-> -1, tr |-> <<>>],
  (* 273 *) [accept |-> "anon_sym_note_COLON", eof |-> -1, tr |-> <<
      <<1, 9, 359, FALSE>>, <<11, 127, 359, FALSE>>
    >>],
  (* 274 *) [accept |-> "sym_comment_content", eof |-> -1, tr |-> <<
      <<32, 32, 290, FALSE>>, <<58, 58, 273, FALSE>>, <<1, 9, 359, FALSE>>, <<11, 127, 359, FALSE>>
    >>],
  (* 275 *) [accept |-> "sym_comment_content", eof |-> -1, tr |-> <<
      <<32, 32, 306, FALSE>>, <<1, 9, 359, FALSE>>, <<11, 127, 359, FALSE>>
    >>],
  (* 276 *) [accept |-> "sym_comment_content", eof |-> -1, tr |-> <<
      <<58, 58, 269, FALSE>>, <<1, 9, 359, FALSE>>, <<11, 127, 359, FALSE>>
    >>],
  (* 277 *) [accept |-> "sym_comment_content", eof |-> -1, tr |-> <<
      <<58, 58, 383, FALSE>>, <<1, 9, 359, FALSE>>, <<11, 127, 359, FALSE>>
    >>],
  (* 278 *) [accept |-> "sym_comment_content", eof |-> -1, tr |-> <<
      <<58, 58, 381, FALSE>>, <<1, 9, 359, FALSE>>, <<11, 127, 359, FALSE>>
    >>],
  (* 279 *) [accept |-> "sym_comment_content", eof |-> -1, tr |-> <<
      <<58, 58, 385, FALSE>>, <<1, 9, 359, FALSE>>, <<11, 127, 359, FALSE>>
    >>],
  (* 280 *) [accept |-> "sym_comment_content", eof |-> -1, tr |-> <<
      <<58, 58, 429, FALSE>>, <<1, 9, 359, FALSE>>, <<11, 127, 359, FALSE>>
    >>],
  (* 281 *) [accept |-> "sym_comment_content", eof |-> -1, tr |-> <<
      <<58, 58, 271, FALSE>>, <<1, 9, 359, FALSE>>, <<11, 127, 359, FALSE>>
    >>],
  (* 282 *) [accept |-> "sym_comment_content", eof |-> -1, tr |-> <<
      <<58, 58, 379, FALSE>>, <<1, 9, 359, FALSE>>, <<11, 127, 359, FALSE>>
    >>],
  (* 283 *) [accept |-> "sym_comment_content", eof |-> -1, tr |-> <<
      <<58, 58, 362, FALSE>>, <<1, 9, 359, FALSE>>, <<11, 127, 359, FALSE>>
    >>],
  (* 284 *) [accept |-> "sym_comment_content", eof |-> -1, tr |-> <<
      <<97, 97, 294, FALSE>>, <<98, 98, 353, FALSE>>, <<99, 99, 285, FALSE>>,
      <<100, 100, 297, FALSE>>, <<101, 101, 357, FALSE>>, <<102, 102, 320, FALSE>>,
      <<105, 105, 309, FALSE>>, <<110, 110, 334, FALSE>>, <<114, 114, 298, FALSE>>,
      <<115, 115, 303, FALSE>>, <<119, 119, 312, FALSE>>, <<9, 9, 284, FALSE>>,
      <<32, 32, 284, FALSE>>, <<1, 9, 359, FALSE>>, <<11, 127, 359, FALSE>>
    >>],
  (* 285 *) [accept |-> "sym_comment_content", eof |-> -1, tr |-> <<
      <<97, 97, 322, FALSE>>, <<1, 9, 359, FALSE>>, <<11, 127, 359, FALSE>>
    >>],
  (* 286 *) [accept |-> "sym_comment_content", eof |-> -1, tr |-> <<
      <<97, 97, 358, FALSE>>, <<1, 9, 359, FALSE>>, <<11, 127, 359, FALSE>>
    >>],
  (* 287 *) [accept |-> "sym_comment_content", eof |-> -1, tr |-> <<
      <<97, 97, 292, FALSE>>, <<1, 9, 359, FALSE>>, <<11, 127, 359, FALSE>>
    >>],
  (* 288 *) [accept |-> "sym_comment_content", eof |-> -1, tr |-> <<
      <<97, 97, 343, FALSE>>, <<1, 9, 359, FALSE>>, <<11, 127, 359, FALSE>>
    >>],
  (* 289 *) [accept |-> "sym_comment_content", eof |-> -1, tr |-> <<
      <<97, 97, 349, FALSE>>, <<1, 9, 359, FALSE>>, <<11, 127, 359, FALSE>>
    >>],
  (* 290 *) [accept |-> "sym_comment_content", eof |-> -1, tr |-> <<
      <<98, 98, 324, FALSE>>, <<1, 9, 359, FALSE>>, <<11, 127, 359, FALSE>>
    >>],
  (* 291 *) [accept |-> "sym_comment_content", eof |-> -1, tr |-> <<
      <<99, 99, 317, FALSE>>, <<1, 9, 359, FALSE>>, <<11, 127, 359, FALSE>>
    >>],
  (* 292 *) [accept |-> "sym_comment_content", eof |-> -1, tr |-> <<
      <<99, 99, 311, FALSE>>, <<1, 9, 359, FALSE>>, <<11, 127, 359, FALSE>>
    >>],
  (* 293 *) [accept |-> "sym_comment_content", eof |-> -1, tr |-> <<
      <<99, 99, 319, FALSE>>, <<1, 9, 359, FALSE>>, <<11, 127, 359, FALSE>>
    >>],
  (* 294 *) [accept |-> "sym_comment_content", eof |-> -1, tr |-> <<
      <<100, 100, 295, FALSE>>, <<116, 116, 350, FALSE>>, <<1, 9, 359, FALSE>>,
      <<11, 127, 359, FALSE>>
    >>],
  (* 295 *) [accept |-> "sym_comment_content", eof |-> -1, tr |-> <<
      <<100, 100, 435, FALSE>>, <<1, 9, 359, FALSE>>, <<11, 127, 359, FALSE>>
    >>],
  (* 296 *) [accept |-> "sym_comment_content", eof |-> -1, tr |-> <<
      <<100, 100, 314, FALSE>>, <<1, 9, 359, FALSE>>, <<11, 127, 359, FALSE>>
    >>],
  (* 297 *) [accept |-> "sym_comment_content", eof |-> -1, tr |-> <<
      <<101, 101, 293, FALSE>>, <<105, 105, 344, FALSE>>, <<111, 111, 276, FALSE>>,
      <<1, 9, 359, FALSE>>, <<11, 127, 359, FALSE>>
    >>],
  (* 298 *) [accept |-> "sym_comment_content", eof |-> -1, tr |-> <<
      <<101, 101, 326, FALSE>>, <<105, 105, 345, FALSE>>, <<1, 9, 359, FALSE>>,
      <<11, 127, 359, FALSE>>
    >>],
  (* 299 *) [accept |-> "sym_comment_content", eof |-> -1, tr |-> <<
      <<101, 101, 327, FALSE>>, <<1, 9, 359, FALSE>>, <<11, 127, 359, FALSE>>
    >>],
  (* 300 *) [accept |-> "sym_comment_content", eof |-> -1, tr |-> <<
      <<101, 101, 274, FALSE>>, <<1, 9, 359, FALSE>>, <<11, 127, 359, FALSE>>
    >>],
  (* 301 *) [accept |-> "sym_comment_content", eof |-> -1, tr |-> <<
      <<101, 101, 427, FALSE>>, <<1, 9, 359, FALSE>>, <<11, 127, 359, FALSE>>
    >>],
  (* 302 *) [accept |-> "sym_comment_content", eof |-> -1, tr |-> <<
      <<101, 101, 438, FALSE>>, <<1, 9, 359, FALSE>>, <<11, 127, 359, FALSE>>
    >>],
  (* 303 *) [accept |-> "sym_comment_content", eof |-> -1, tr |-> <<
      <<101, 101, 346, FALSE>>, <<116, 116, 305, FALSE>>, <<1, 9, 359, FALSE>>,
      <<11, 127, 359, FALSE>>
    >>],
  (* 304 *) [accept |-> "sym_comment_content", eof |-> -1, tr |-> <<
      <<101, 101, 289, FALSE>>, <<1, 9, 359, FALSE>>, <<11, 127, 359, FALSE>>
    >>],
  (* 305 *) [accept |-> "sym_comment_content", eof |-> -1, tr |-> <<
      <<101, 101, 336, FALSE>>, <<1, 9, 359, FALSE>>, <<11, 127, 359, FALSE>>
    >>],
  (* 306 *) [accept |-> "sym_comment_content", eof |-> -1, tr |-> <<
      <<101, 101, 287, FALSE>>, <<1, 9, 359, FALSE>>, <<11, 127, 359, FALSE>>
    >>],
  (* 307 *) [accept |-> "sym_comment_content", eof |-> -1, tr |-> <<
      <<101, 101, 281, FALSE>>, <<1, 9, 359, FALSE>>, <<11, 127, 359, FALSE>>
    >>],
  (* 308 *) [accept |-> "sym_comment_content", eof |-> -1, tr |-> <<
      <<101, 101, 342, FALSE>>, <<1, 9, 359, FALSE>>, <<11, 127, 359, FALSE>>
    >>],
  (* 309 *) [accept |-> "sym_comment_content", eof |-> -1, tr |-> <<
      <<102, 102, 416, FALSE>>, <<110, 110, 335, FALSE>>, <<1, 9, 359, FALSE>>,
      <<11, 127, 359, FALSE>>
    >>],
  (* 310 *) [accept |-> "sym_comment_content", eof |-> -1, tr |-> <<
      <<103, 103, 282, FALSE>>, <<1, 9, 359, FALSE>>, <<11, 127, 359, FALSE>>
    >>],
  (* 311 *) [accept |-> "sym_comment_content", eof |-> -1, tr |-> <<
      <<104, 104, 424, FALSE>>, <<1, 9, 359, FALSE>>, <<11, 127, 359, FALSE>>
    >>],
  (* 312 *) [accept |-> "sym_comment_content", eof |-> -1, tr |-> <<
      <<104, 104, 316, FALSE>>, <<1, 9, 359, FALSE>>, <<11, 127, 359, FALSE>>
    >>],
  (* 313 *) [accept |-> "sym_comment_content", eof |-> -1, tr |-> <<
      <<105, 105, 321, FALSE>>, <<1, 9, 359, FALSE>>, <<11, 127, 359, FALSE>>
    >>],
  (* 314 *) [accept |-> "sym_comment_content", eof |-> -1, tr |-> <<
      <<105, 105, 329, FALSE>>, <<1, 9, 359, FALSE>>, <<11, 127, 359, FALSE>>
    >>],
  (* 315 *) [accept |-> "sym_comment_content", eof |-> -1, tr |-> <<
      <<105, 105, 347, FALSE>>, <<1, 9, 359, FALSE>>, <<11, 127, 359, FALSE>>
    >>],
  (* 316 *) [accept |-> "sym_comment_content", eof |-> -1, tr |-> <<
      <<105, 105, 325, FALSE>>, <<1, 9, 359, FALSE>>, <<11, 127, 359, FALSE>>
    >>],
  (* 317 *) [accept |-> "sym_comment_content", eof |-> -1, tr |-> <<
      <<107, 107, 283, FALSE>>, <<1, 9, 359, FALSE>>, <<11, 127, 359, FALSE>>
    >>],
  (* 318 *) [accept |-> "sym_comment_content", eof |-> -1, tr |-> <<
      <<108, 108, 396, FALSE>>, <<1, 9, 359, FALSE>>, <<11, 127, 359, FALSE>>
    >>],
  (* 319 *) [accept |-> "sym_comment_content", eof |-> -1, tr |-> <<
      <<108, 108, 288, FALSE>>, <<1, 9, 359, FALSE>>, <<11, 127, 359, FALSE>>
    >>],
  (* 320 *) [accept |-> "sym_comment_content", eof |-> -1, tr |-> <<
      <<108, 108, 332, FALSE>>, <<111, 111, 339, FALSE>>, <<1, 9, 359, FALSE>>,
      <<11, 127, 359, FALSE>>
    >>],
  (* 321 *) [accept |-> "sym_comment_content", eof |-> -1, tr |-> <<
      <<108, 108, 296, FALSE>>, <<1, 9, 359, FALSE>>, <<11, 127, 359, FALSE>>
    >>],
  (* 322 *) [accept |-> "sym_comment_content", eof |-> -1, tr |-> <<
      <<108, 108, 318, FALSE>>, <<1, 9, 359, FALSE>>, <<11, 127, 359, FALSE>>
    >>],
  (* 323 *) [accept |-> "sym_comment_content", eof |-> -1, tr |-> <<
      <<108, 108, 286, FALSE>>, <<1, 9, 359, FALSE>>, <<11, 127, 359, FALSE>>
    >>],
  (* 324 *) [accept |-> "sym_comment_content", eof |-> -1, tr |-> <<
      <<108, 108, 333, FALSE>>, <<1, 9, 359, FALSE>>, <<11, 127, 359, FALSE>>
    >>],
  (* 325 *) [accept |-> "sym_comment_content", eof |-> -1, tr |-> <<
      <<108, 108, 301, FALSE>>, <<1, 9, 359, FALSE>>, <<11, 127, 359, FALSE>>
    >>],
  (* 326 *) [accept |-> "sym_comment_content", eof |-> -1, tr |-> <<
      <<109, 109, 330, FALSE>>, <<112, 112, 304, FALSE>>, <<116, 116, 354, FALSE>>,
      <<1, 9, 359, FALSE>>, <<11, 127, 359, FALSE>>
    >>],
  (* 327 *) [accept |-> "sym_comment_content", eof |-> -1, tr |-> <<
      <<109, 109, 337, FALSE>>, <<1, 9, 359, FALSE>>, <<11, 127, 359, FALSE>>
    >>],
  (* 328 *) [accept |-> "sym_comment_content", eof |-> -1, tr |-> <<
      <<110, 110, 408, FALSE>>, <<1, 9, 359, FALSE>>, <<11, 127, 359, FALSE>>
    >>],
  (* 329 *) [accept |-> "sym_comment_content", eof |-> -1, tr |-> <<
      <<110, 110, 310, FALSE>>, <<1, 9, 359, FALSE>>, <<11, 127, 359, FALSE>>
    >>],
  (* 330 *) [accept |-> "sym_comment_content", eof |-> -1, tr |-> <<
      <<111, 111, 356, FALSE>>, <<1, 9, 359, FALSE>>, <<11, 127, 359, FALSE>>
    >>],
  (* 331 *) [accept |-> "sym_comment_content", eof |-> -1, tr |-> <<
      <<111, 111, 341, FALSE>>, <<1, 9, 359, FALSE>>, <<11, 127, 359, FALSE>>
    >>],
  (* 332 *) [accept |-> "sym_comment_content", eof |-> -1, tr |-> <<
      <<111, 111, 331, FALSE>>, <<1, 9, 359, FALSE>>, <<11, 127, 359, FALSE>>
    >>],
  (* 333 *) [accept |-> "sym_comment_content", eof |-> -1, tr |-> <<
      <<111, 111, 291, FALSE>>, <<1, 9, 359, FALSE>>, <<11, 127, 359, FALSE>>
    >>],
  (* 334 *) [accept |-> "sym_comment_content", eof |-> -1, tr |-> <<
      <<111, 111, 351, FALSE>>, <<1, 9, 359, FALSE>>, <<11, 127, 359, FALSE>>
    >>],
  (* 335 *) [accept |-> "sym_comment_content", eof |-> -1, tr |-> <<
      <<112, 112, 355, FALSE>>, <<1, 9, 359, FALSE>>, <<11, 127, 359, FALSE>>
    >>],
  (* 336 *) [accept |-> "sym_comment_content", eof |-> -1, tr |-> <<
      <<112, 112, 277, FALSE>>, <<1, 9, 359, FALSE>>, <<11, 127, 359, FALSE>>
    >>],
  (* 337 *) [accept |-> "sym_comment_content", eof |-> -1, tr |-> <<
      <<112, 112, 352, FALSE>>, <<1, 9, 359, FALSE>>, <<11, 127, 359, FALSE>>
    >>],
  (* 338 *) [accept |-> "sym_comment_content", eof |-> -1, tr |-> <<
      <<112, 112, 323, FALSE>>, <<1, 9, 359, FALSE>>, <<11, 127, 359, FALSE>>
    >>],
  (* 339 *) [accept |-> "sym_comment_content", eof |-> -1, tr |-> <<
      <<114, 114, 275, FALSE>>, <<1, 9, 359, FALSE>>, <<11, 127, 359, FALSE>>
    >>],
  (* 340 *) [accept |-> "sym_comment_content", eof |-> -1, tr |-> <<
      <<114, 114, 328, FALSE>>, <<1, 9, 359, FALSE>>, <<11, 127, 359, FALSE>>
    >>],
  (* 341 *) [accept |-> "sym_comment_content", eof |-> -1, tr |-> <<
      <<114, 114, 278, FALSE>>, <<1, 9, 359, FALSE>>, <<11, 127, 359, FALSE>>
    >>],
  (* 342 *) [accept |-> "sym_comment_content", eof |-> -1, tr |-> <<
      <<114, 114, 279, FALSE>>, <<1, 9, 359, FALSE>>, <<11, 127, 359, FALSE>>
    >>],
  (* 343 *) [accept |-> "sym_comment_content", eof |-> -1, tr |-> <<
      <<114, 114, 307, FALSE>>, <<1, 9, 359, FALSE>>, <<11, 127, 359, FALSE>>
    >>],
  (* 344 *) [accept |-> "sym_comment_content", eof |-> -1, tr |-> <<
      <<115, 115, 338, FALSE>>, <<1, 9, 359, FALSE>>, <<11, 127, 359, FALSE>>
    >>],
  (* 345 *) [accept |-> "sym_comment_content", eof |-> -1, tr |-> <<
      <<115, 115, 308, FALSE>>, <<1, 9, 359, FALSE>>, <<11, 127, 359, FALSE>>
    >>],
  (* 346 *) [accept |-> "sym_comment_content", eof |-> -1, tr |-> <<
      <<116, 116, 393, FALSE>>, <<1, 9, 359, FALSE>>, <<11, 127, 359, FALSE>>
    >>],
  (* 347 *) [accept |-> "sym_comment_content", eof |-> -1, tr |-> <<
      <<116, 116, 411, FALSE>>, <<1, 9, 359, FALSE>>, <<11, 127, 359, FALSE>>
    >>],
  (* 348 *) [accept |-> "sym_comment_content", eof |-> -1, tr |-> <<
      <<116, 116, 403, FALSE>>, <<1, 9, 359, FALSE>>, <<11, 127, 359, FALSE>>
    >>],
  (* 349 *) [accept |-> "sym_comment_content", eof |-> -1, tr |-> <<
      <<116, 116, 422, FALSE>>, <<1, 9, 359, FALSE>>, <<11, 127, 359, FALSE>>
    >>],
  (* 350 *) [accept |-> "sym_comment_content", eof |-> -1, tr |-> <<
      <<116, 116, 299, FALSE>>, <<1, 9, 359, FALSE>>, <<11, 127, 359, FALSE>>
    >>],
  (* 351 *) [accept |-> "sym_comment_content", eof |-> -1, tr |-> <<
      <<116, 116, 300, FALSE>>, <<1, 9, 359, FALSE>>, <<11, 127, 359, FALSE>>
    >>],
  (* 352 *) [accept |-> "sym_comment_content", eof |-> -1, tr |-> <<
      <<116, 116, 280, FALSE>>, <<1, 9, 359, FALSE>>, <<11, 127, 359, FALSE>>
    >>],
  (* 353 *) [accept |-> "sym_comment_content", eof |-> -1, tr |-> <<
      <<117, 117, 313, FALSE>>, <<1, 9, 359, FALSE>>, <<11, 127, 359, FALSE>>
    >>],
  (* 354 *) [accept |-> "sym_comment_content", eof |-> -1, tr |-> <<
      <<117, 117, 340, FALSE>>, <<1, 9, 359, FALSE>>, <<11, 127, 359, FALSE>>
    >>],
  (* 355 *) [accept |-> "sym_comment_content", eof |-> -1, tr |-> <<
      <<117, 117, 348, FALSE>>, <<1, 9, 359, FALSE>>, <<11, 127, 359, FALSE>>
    >>],
  (* 356 *) [accept |-> "sym_comment_content", eof |-> -1, tr |-> <<
      <<118, 118, 302, FALSE>>, <<1, 9, 359, FALSE>>, <<11, 127, 359, FALSE>>
    >>],
  (* 357 *) [accept |-> "sym_comment_content", eof |-> -1, tr |-> <<
      <<120, 120, 315, FALSE>>, <<1, 9, 359, FALSE>>, <<11, 127, 359, FALSE>>
    >>],
  (* 358 *) [accept |-> "sym_comment_content", eof |-> -1, tr |-> <<
      <<121, 121, 400, FALSE>>, <<1, 9, 359, FALSE>>, <<11, 127, 359, FALSE>>
    >>],
  (* 359 *) [accept |-> "sym_comment_content", eof |-> -1, tr |-> <<
      <<1, 9, 359, FALSE>>, <<11, 127, 359, FALSE>>
    >>],
  (* 360 *) [accept |-> "sym_comment_content", eof |-> 267, tr |-> <<
      <<97, 97, 294, FALSE>>, <<98, 98, 353, FALSE>>, <<99, 99, 285, FALSE>>,
      <<100, 100, 297, FALSE>>, <<101, 101, 357, FALSE>>, <<102, 102, 320, FALSE>>,
      <<105, 105, 309, FALSE>>, <<110, 110, 334, FALSE>>, <<114, 114, 298, FALSE>>,
      <<115, 115, 303, FALSE>>, <<119, 119, 312, FALSE>>, <<9, 9, 284, FALSE>>,
      <<32, 32, 284, FALSE>>, <<1, 9, 359, FALSE>>, <<11, 127, 359, FALSE>>
    >>],
  (* 361 *) [accept |-> "anon_sym_noteblock_COLON", eof |-> -1, tr |-> <<>>],
  (* 362 *) [accept |-> "anon_sym_noteblock_COLON", eof |-> -1, tr |-> <<
      <<1, 9, 359, FALSE>>, <<11, 127, 359, FALSE>>
    >>],
  (* 363 *) [accept |-> "anon_sym_endnote", eof |-> -1, tr |-> <<>>],
  (* 364 *) [accept |-> "aux_sym_block_comment_content_token1", eof |-> -1, tr |-> <<
      <<9, 9, 364, FALSE>>, <<32, 32, 364, FALSE>>, <<1, 100, 365, FALSE>>, <<102, 127, 365, FALSE>>
    >>],
  (* 365 *) [accept |-> "aux_sym_block_comment_content_token1", eof |-> -1, tr |-> <<
      <<1, 100, 365, FALSE>>, <<102, 127, 365, FALSE>>
    >>],
  (* 366 *) [accept |-> "aux_sym_block_comment_content_token2", eof |-> -1, tr |-> <<>>],
  (* 367 *) [accept |-> "aux_sym_block_comment_content_token2", eof |-> -1, tr |-> <<
      <<105, 105, 591, FALSE>>, <<112, 112, 513, FALSE>>, <<48, 57, 610, FALSE>>,
      <<65, 90, 610, FALSE>>, <<95, 95, 610, FALSE>>, <<97, 122, 610, FALSE>>
    >>],
  (* 368 *) [accept |-> "aux_sym_block_comment_content_token2", eof |-> -1, tr |-> <<
      <<48, 57, 610, FALSE>>, <<65, 90, 610, FALSE>>, <<95, 95, 610, FALSE>>,
      <<97, 122, 610, FALSE>>
    >>],
  (* 369 *) [accept |-> "aux_sym_block_comment_content_token3", eof |-> -1, tr |-> <<>>],
  (* 370 *) [accept |-> "aux_sym_block_comment_content_token3", eof |-> -1, tr |-> <<
      <<48, 57, 610, FALSE>>, <<65, 90, 610, FALSE>>, <<95, 95, 610, FALSE>>,
      <<97, 122, 610, FALSE>>
    >>],
  (* 371 *) [accept |-> "aux_sym_block_comment_content_token4", eof |-> -1, tr |-> <<>>],
  (* 372 *) [accept |-> "aux_sym_block_comment_content_token4", eof |-> -1, tr |-> <<
      <<32, 32, 246, FALSE>>, <<48, 57, 610, FALSE>>, <<65, 90, 610, FALSE>>,
      <<95, 95, 610, FALSE>>, <<97, 122, 610, FALSE>>
    >>],
  (* 373 *) [accept |-> "aux_sym_block_comment_content_token4", eof |-> -1, tr |-> <<
      <<48, 57, 610, FALSE>>, <<65, 90, 610, FALSE>>, <<95, 95, 610, FALSE>>,
      <<97, 122, 610, FALSE>>
    >>],
  (* 374 *) [accept |-> "aux_sym_block_comment_content_token5", eof |-> -1, tr |-> <<>>],
  (* 375 *) [accept |-> "aux_sym_block_comment_content_token6", eof |-> -1, tr |-> <<>>],
  (* 376 *) [accept |-> "aux_sym_block_comment_content_token7", eof |-> -1, tr |-> <<>>],
  (* 377 *) [accept |-> "aux_sym_block_comment_content_token8", eof |-> -1, tr |-> <<>>],
  (* 378 *) [accept |-> "anon_sym_building_COLON", eof |-> -1, tr |-> <<>>],
  (* 379 *) [accept |-> "anon_sym_building_COLON", eof |-> -1, tr |-> <<
      <<1, 9, 359, FALSE>>, <<11, 127, 359, FALSE>>
    >>],
  (* 380 *) [accept |-> "anon_sym_floor_COLON", eof |-> -1, tr |-> <<>>],
  (* 381 *) [accept |-> "anon_sym_floor_COLON", eof |-> -1, tr |-> <<
      <<1, 9, 359, FALSE>>, <<11, 127, 359, FALSE>>
    >>],
  (* 382 *) [accept |-> "anon_sym_step_COLON", eof |-> -1, tr |-> <<>>],
  (* 383 *) [accept |-> "anon_sym_step_COLON", eof |-> -1, tr |-> <<
      <<1, 9, 359, FALSE>>, <<11, 127, 359, FALSE>>
    >>],
  (* 384 *) [accept |-> "anon_sym_riser_COLON", eof |-> -1, tr |-> <<>>],
  (* 385 *) [accept |-> "anon_sym_riser_COLON", eof |-> -1, tr |-> <<
      <<1, 9, 359, FALSE>>, <<11, 127, 359, FALSE>>
    >>],
  (* 386 *) [accept |-> "anon_sym_belongsto_COLON", eof |-> -1, tr |-> <<>>],
  (* 387 *) [accept |-> "anon_sym_expects_COLON", eof |-> -1, tr |-> <<>>],
  (* 388 *) [accept |-> "anon_sym_returns_COLON", eof |-> -1, tr |-> <<>>],
  (* 389 *) [accept |-> "anon_sym_COMMA", eof |-> -1, tr |-> <<>>],
  (* 390 *) [accept |-> "anon_sym_EQ", eof |-> -1, tr |-> <<>>],
  (* 391 *) [accept |-> "anon_sym_set", eof |-> -1, tr |-> <<>>],
  (* 392 *) [accept |-> "anon_sym_set", eof |-> -1, tr |-> <<
      <<48, 57, 610, FALSE>>, <<65, 90, 610, FALSE>>, <<95, 95, 610, FALSE>>,
      <<97, 122, 610, FALSE>>
    >>],
  (* 393 *) [accept |-> "anon_sym_set", eof |-> -1, tr |-> <<<<1, 9, 359, FALSE>>, <<11, 127, 359,
      FALSE>>>>],
  (* 394 *) [accept |-> "anon_sym_call", eof |-> -1, tr |-> <<>>],
  (* 395 *) [accept |-> "anon_sym_call", eof |-> -1, tr |-> <<
      <<48, 57, 610, FALSE>>, <<65, 90, 610, FALSE>>, <<95, 95, 610, FALSE>>,
      <<97, 122, 610, FALSE>>
    >>],
  (* 396 *) [accept |-> "anon_sym_call", eof |-> -1, tr |-> <<
      <<1, 9, 359, FALSE>>, <<11, 127, 359, FALSE>>
    >>],
  (* 397 *) [accept |-> "anon_sym_storingresultin", eof |-> -1, tr |-> <<>>],
  (* 398 *) [accept |-> "anon_sym_display", eof |-> -1, tr |-> <<>>],
  (* 399 *) [accept |-> "anon_sym_display", eof |-> -1, tr |-> <<
      <<48, 57, 610, FALSE>>, <<65, 90, 610, FALSE>>, <<95, 95, 610, FALSE>>,
      <<97, 122, 610, FALSE>>
    >>],
  (* 400 *) [accept |-> "anon_sym_display", eof |-> -1, tr |-> <<
      <<1, 9, 359, FALSE>>, <<11, 127, 359, FALSE>>
    >>],
  (* 401 *) [accept |-> "anon_sym_input", eof |-> -1, tr |-> <<>>],
  (* 402 *) [accept |-> "anon_sym_input", eof |-> -1, tr |-> <<
      <<48, 57, 610, FALSE>>, <<65, 90, 610, FALSE>>, <<95, 95, 610, FALSE>>,
      <<97, 122, 610, FALSE>>
    >>],
  (* 403 *) [accept |-> "anon_sym_input", eof |-> -1, tr |-> <<
      <<1, 9, 359, FALSE>>, <<11, 127, 359, FALSE>>
    >>],
  (* 404 *) [accept |-> "anon_sym_return", eof |-> -1, tr |-> <<>>],
  (* 405 *) [accept |-> "anon_sym_return", eof |-> -1, tr |-> <<
      <<115, 115, 482, FALSE>>, <<48, 57, 610, FALSE>>, <<65, 90, 610, FALSE>>,
      <<95, 95, 610, FALSE>>, <<97, 122, 610, FALSE>>
    >>],
  (* 406 *) [accept |-> "anon_sym_return", eof |-> -1, tr |-> <<<<115, 115, 29, FALSE>>>>],
  (* 407 *) [accept |-> "anon_sym_return", eof |-> -1, tr |-> <<
      <<48, 57, 610, FALSE>>, <<65, 90, 610, FALSE>>, <<95, 95, 610, FALSE>>,
      <<97, 122, 610, FALSE>>
    >>],
  (* 408 *) [accept |-> "anon_sym_return", eof |-> -1, tr |-> <<
      <<1, 9, 359, FALSE>>, <<11, 127, 359, FALSE>>
    >>],
  (* 409 *) [accept |-> "sym_exit_statement", eof |-> -1, tr |-> <<>>],
  (* 410 *) [accept |-> "sym_exit_statement", eof |-> -1, tr |-> <<
      <<48, 57, 610, FALSE>>, <<65, 90, 610, FALSE>>, <<95, 95, 610, FALSE>>,
      <<97, 122, 610, FALSE>>
    >>],
  (* 411 *) [accept |-> "sym_exit_statement", eof |-> -1, tr |-> <<
      <<1, 9, 359, FALSE>>, <<11, 127, 359, FALSE>>
    >>],
  (* 412 *) [accept |-> "anon_sym_if", eof |-> -1, tr |-> <<>>],
  (* 413 *) [accept |-> "anon_sym_if", eof |-> -1, tr |-> <<<<32, 32, 232, FALSE>>>>],
  (* 414 *) [accept |-> "anon_sym_if", eof |-> -1, tr |-> <<
      <<32, 32, 232, FALSE>>, <<48, 57, 610, FALSE>>, <<65, 90, 610, FALSE>>,
      <<95, 95, 610, FALSE>>, <<97, 122, 610, FALSE>>
    >>],
  (* 415 *) [accept |-> "anon_sym_if", eof |-> -1, tr |-> <<
      <<48, 57, 610, FALSE>>, <<65, 90, 610, FALSE>>, <<95, 95, 610, FALSE>>,
      <<97, 122, 610, FALSE>>
    >>],
  (* 416 *) [accept |-> "anon_sym_if", eof |-> -1, tr |-> <<<<1, 9, 359, FALSE>>, <<11, 127, 359,
      FALSE>>>>],
  (* 417 *) [accept |-> "anon_sym_otherwiseif", eof |-> -1, tr |-> <<>>],
  (* 418 *) [accept |-> "anon_sym_otherwise", eof |-> -1, tr |-> <<<<32, 32, 108, FALSE>>>>],
  (* 419 *) [accept |-> "anon_sym_otherwise", eof |-> -1, tr |-> <<
      <<32, 32, 108, FALSE>>, <<48, 57, 610, FALSE>>, <<65, 90, 610, FALSE>>,
      <<95, 95, 610, FALSE>>, <<97, 122, 610, FALSE>>
    >>],
  (* 420 *) [accept |-> "anon_sym_repeat", eof |-> -1, tr |-> <<>>],
  (* 421 *) [accept |-> "anon_sym_repeat", eof |-> -1, tr |-> <<
      <<48, 57, 610, FALSE>>, <<65, 90, 610, FALSE>>, <<95, 95, 610, FALSE>>,
      <<97, 122, 610, FALSE>>
    >>],
  (* 422 *) [accept |-> "anon_sym_repeat", eof |-> -1, tr |-> <<
      <<1, 9, 359, FALSE>>, <<11, 127, 359, FALSE>>
    >>],
  (* 423 *) [accept |-> "anon_sym_foreach", eof |-> -1, tr |-> <<>>],
  (* 424 *) [accept |-> "anon_sym_foreach", eof |-> -1, tr |-> <<
      <<1, 9, 359, FALSE>>, <<11, 127, 359, FALSE>>
    >>],
  (* 425 *) [accept |-> "anon_sym_while", eof |-> -1, tr |-> <<>>],
  (* 426 *) [accept |-> "anon_sym_while", eof |-> -1, tr |-> <<
      <<48, 57, 610, FALSE>>, <<65, 90, 610, FALSE>>, <<95, 95, 610, FALSE>>,
      <<97, 122, 610, FALSE>>
    >>],
  (* 427 *) [accept |-> "anon_sym_while", eof |-> -1, tr |-> <<
      <<1, 9, 359, FALSE>>, <<11, 127, 359, FALSE>>
    >>],
  (* 428 *) [accept |-> "anon_sym_attempt_COLON", eof |-> -1, tr |-> <<>>],
  (* 429 *) [accept |-> "anon_sym_attempt_COLON", eof |-> -1, tr |-> <<
      <<1, 9, 359, FALSE>>, <<11, 127, 359, FALSE>>
    >>],
  (* 430 *) [accept |-> "anon_sym_ifunsuccessful_COLON", eof |-> -1, tr |-> <<>>],
  (* 431 *) [accept |-> "anon_sym_thencontinue_COLON", eof |-> -1, tr |-> <<>>],
  (* 432 *) [accept |-> "anon_sym_add", eof |-> -1, tr |-> <<>>],
  (* 433 *) [accept |-> "anon_sym_add", eof |-> -1, tr |-> <<
      <<101, 101, 497, FALSE>>, <<48, 57, 610, FALSE>>, <<65, 90, 610, FALSE>>,
      <<95, 95, 610, FALSE>>, <<97, 122, 610, FALSE>>
    >>],
  (* 434 *) [accept |-> "anon_sym_add", eof |-> -1, tr |-> <<
      <<48, 57, 610, FALSE>>, <<65, 90, 610, FALSE>>, <<95, 95, 610, FALSE>>,
      <<97, 122, 610, FALSE>>
    >>],
  (* 435 *) [accept |-> "anon_sym_add", eof |-> -1, tr |-> <<<<1, 9, 359, FALSE>>, <<11, 127, 359,
      FALSE>>>>],
  (* 436 *) [accept |-> "anon_sym_remove", eof |-> -1, tr |-> <<>>],
  (* 437 *) [accept |-> "anon_sym_remove", eof |-> -1, tr |-> <<
      <<48, 57, 610, FALSE>>, <<65, 90, 610, FALSE>>, <<95, 95, 610, FALSE>>,
      <<97, 122, 610, FALSE>>
    >>],
  (* 438 *) [accept |-> "anon_sym_remove", eof |-> -1, tr |-> <<
      <<1, 9, 359, FALSE>>, <<11, 127, 359, FALSE>>
    >>],
  (* 439 *) [accept |-> "sym_number", eof |-> -1, tr |-> <<<<46, 46, 255, FALSE>>, <<48, 57, 439,
      FALSE>>>>],
  (* 440 *) [accept |-> "sym_number", eof |-> -1, tr |-> <<<<48, 57, 440, FALSE>>>>],
  (* 441 *) [accept |-> "anon_sym_DQUOTE", eof |-> -1, tr |-> <<>>],
  (* 442 *) [accept |-> "aux_sym_string_content_token1", eof |-> -1, tr |-> <<
      <<9, 9, 442, FALSE>>, <<32, 32, 442, FALSE>>, <<1, 33, 443, FALSE>>, <<35, 91, 443, FALSE>>,
      <<93, 127, 443, FALSE>>
    >>],
  (* 443 *) [accept |-> "aux_sym_string_content_token1", eof |-> -1, tr |-> <<
      <<1, 33, 443, FALSE>>, <<35, 91, 443, FALSE>>, <<93, 127, 443, FALSE>>
    >>],
  (* 444 *) [accept |-> "sym_escape_sequence", eof |-> -1, tr |-> <<>>],
  (* 445 *) [accept |-> "anon_sym_LBRACK", eof |-> -1, tr |-> <<>>],
  (* 446 *) [accept |-> "anon_sym_RBRACK", eof |-> -1, tr |-> <<>>],
  (* 447 *) [accept |-> "anon_sym_PLUS", eof |-> -1, tr |-> <<>>],
  (* 448 *) [accept |-> "anon_sym_DASH", eof |-> -1, tr |-> <<>>],
  (* 449 *) [accept |-> "anon_sym_STAR", eof |-> -1, tr |-> <<>>],
  (* 450 *) [accept |-> "anon_sym_SLASH", eof |-> -1, tr |-> <<>>],
  (* 451 *) [accept |-> "anon_sym_isequalto", eof |-> -1, tr |-> <<>>],
  (* 452 *) [accept |-> "anon_sym_isnotequalto", eof |-> -1, tr |-> <<>>],
  (* 453 *) [accept |-> "anon_sym_islessthan", eof |-> -1, tr |-> <<<<32, 32, 168, FALSE>>>>],
  (* 454 *) [accept |-> "anon_sym_isgreaterthan", eof |-> -1, tr |-> <<<<32, 32, 174, FALSE>>>>],
  (* 455 *) [accept |-> "anon_sym_islessthanorequalto", eof |-> -1, tr |-> <<>>],
  (* 456 *) [accept |-> "anon_sym_isgreaterthanorequalto", eof |-> -1, tr |-> <<>>],
  (* 457 *) [accept |-> "anon_sym_addedto", eof |-> -1, tr |-> <<>>],
  (* 458 *) [accept |-> "anon_sym_startswith", eof |-> -1, tr |-> <<>>],
  (* 459 *) [accept |-> "anon_sym_endswith", eof |-> -1, tr |-> <<>>],
  (* 460 *) [accept |-> "anon_sym_isin", eof |-> -1, tr |-> <<>>],
  (* 461 *) [accept |-> "anon_sym_lengthof", eof |-> -1, tr |-> <<>>],
  (* 462 *) [accept |-> "anon_sym_LPAREN", eof |-> -1, tr |-> <<>>],
  (* 463 *) [accept |-> "anon_sym_RPAREN", eof |-> -1, tr |-> <<>>],
  (* 464 *) [accept |-> "sym_identifier", eof |-> -1, tr |-> <<
      <<32, 32, 60, FALSE>>, <<48, 57, 610, FALSE>>, <<65, 90, 610, FALSE>>,
      <<95, 95, 610, FALSE>>, <<97, 122, 610, FALSE>>
    >>],
  (* 465 *) [accept |-> "sym_identifier", eof |-> -1, tr |-> <<
      <<32, 32, 3, FALSE>>, <<115, 115, 372, FALSE>>, <<48, 57, 373, FALSE>>,
      <<65, 90, 373, FALSE>>, <<95, 95, 373, FALSE>>, <<97, 122, 373, FALSE>>,
      <<1, 127, 371, FALSE>>
    >>],
  (* 466 *) [accept |-> "sym_identifier", eof |-> -1, tr |-> <<
      <<32, 32, 61, FALSE>>, <<48, 57, 610, FALSE>>, <<65, 90, 610, FALSE>>,
      <<95, 95, 610, FALSE>>, <<97, 122, 610, FALSE>>
    >>],
  (* 467 *) [accept |-> "sym_identifier", eof |-> -1, tr |-> <<
      <<32, 32, 246, FALSE>>, <<48, 57, 610, FALSE>>, <<65, 90, 610, FALSE>>,
      <<95, 95, 610, FALSE>>, <<97, 122, 610, FALSE>>
    >>],
  (* 468 *) [accept |-> "sym_identifier", eof |-> -1, tr |-> <<
      <<32, 32, 47, FALSE>>, <<58, 58, 272, FALSE>>, <<48, 57, 610, FALSE>>,
      <<65, 90, 610, FALSE>>, <<95, 95, 610, FALSE>>, <<97, 122, 610, FALSE>>
    >>],
  (* 469 *) [accept |-> "sym_identifier", eof |-> -1, tr |-> <<
      <<32, 32, 50, FALSE>>, <<48, 57, 610, FALSE>>, <<65, 90, 610, FALSE>>,
      <<95, 95, 610, FALSE>>, <<97, 122, 610, FALSE>>
    >>],
  (* 470 *) [accept |-> "sym_identifier", eof |-> -1, tr |-> <<
      <<32, 32, 183, FALSE>>, <<48, 57, 610, FALSE>>, <<65, 90, 610, FALSE>>,
      <<95, 95, 610, FALSE>>, <<97, 122, 610, FALSE>>
    >>],
  (* 471 *) [accept |-> "sym_identifier", eof |-> -1, tr |-> <<
      <<32, 32, 216, FALSE>>, <<48, 57, 610, FALSE>>, <<65, 90, 610, FALSE>>,
      <<95, 95, 610, FALSE>>, <<97, 122, 610, FALSE>>
    >>],
  (* 472 *) [accept |-> "sym_identifier", eof |-> -1, tr |-> <<
      <<32, 32, 159, FALSE>>, <<48, 57, 610, FALSE>>, <<65, 90, 610, FALSE>>,
      <<95, 95, 610, FALSE>>, <<97, 122, 610, FALSE>>
    >>],
  (* 473 *) [accept |-> "sym_identifier", eof |-> -1, tr |-> <<
      <<32, 32, 221, FALSE>>, <<48, 57, 610, FALSE>>, <<65, 90, 610, FALSE>>,
      <<95, 95, 610, FALSE>>, <<97, 122, 610, FALSE>>
    >>],
  (* 474 *) [accept |-> "sym_identifier", eof |-> -1, tr |-> <<
      <<32, 32, 248, FALSE>>, <<48, 57, 610, FALSE>>, <<65, 90, 610, FALSE>>,
      <<95, 95, 610, FALSE>>, <<97, 122, 610, FALSE>>
    >>],
  (* 475 *) [accept |-> "sym_identifier", eof |-> -1, tr |-> <<
      <<58, 58, 268, FALSE>>, <<48, 57, 610, FALSE>>, <<65, 90, 610, FALSE>>,
      <<95, 95, 610, FALSE>>, <<97, 122, 610, FALSE>>
    >>],
  (* 476 *) [accept |-> "sym_identifier", eof |-> -1, tr |-> <<
      <<58, 58, 382, FALSE>>, <<48, 57, 610, FALSE>>, <<65, 90, 610, FALSE>>,
      <<95, 95, 610, FALSE>>, <<97, 122, 610, FALSE>>
    >>],
  (* 477 *) [accept |-> "sym_identifier", eof |-> -1, tr |-> <<
      <<58, 58, 380, FALSE>>, <<48, 57, 610, FALSE>>, <<65, 90, 610, FALSE>>,
      <<95, 95, 610, FALSE>>, <<97, 122, 610, FALSE>>
    >>],
  (* 478 *) [accept |-> "sym_identifier", eof |-> -1, tr |-> <<
      <<58, 58, 384, FALSE>>, <<48, 57, 610, FALSE>>, <<65, 90, 610, FALSE>>,
      <<95, 95, 610, FALSE>>, <<97, 122, 610, FALSE>>
    >>],
  (* 479 *) [accept |-> "sym_identifier", eof |-> -1, tr |-> <<
      <<58, 58, 428, FALSE>>, <<48, 57, 610, FALSE>>, <<65, 90, 610, FALSE>>,
      <<95, 95, 610, FALSE>>, <<97, 122, 610, FALSE>>
    >>],
  (* 480 *) [accept |-> "sym_identifier", eof |-> -1, tr |-> <<
      <<58, 58, 270, FALSE>>, <<48, 57, 610, FALSE>>, <<65, 90, 610, FALSE>>,
      <<95, 95, 610, FALSE>>, <<97, 122, 610, FALSE>>
    >>],
  (* 481 *) [accept |-> "sym_identifier", eof |-> -1, tr |-> <<
      <<58, 58, 387, FALSE>>, <<48, 57, 610, FALSE>>, <<65, 90, 610, FALSE>>,
      <<95, 95, 610, FALSE>>, <<97, 122, 610, FALSE>>
    >>],
  (* 482 *) [accept |-> "sym_identifier", eof |-> -1, tr |-> <<
      <<58, 58, 388, FALSE>>, <<48, 57, 610, FALSE>>, <<65, 90, 610, FALSE>>,
      <<95, 95, 610, FALSE>>, <<97, 122, 610, FALSE>>
    >>],
  (* 483 *) [accept |-> "sym_identifier", eof |-> -1, tr |-> <<
      <<58, 58, 378, FALSE>>, <<48, 57, 610, FALSE>>, <<65, 90, 610, FALSE>>,
      <<95, 95, 610, FALSE>>, <<97, 122, 610, FALSE>>
    >>],
  (* 484 *) [accept |-> "sym_identifier", eof |-> -1, tr |-> <<
      <<97, 97, 609, FALSE>>, <<48, 57, 610, FALSE>>, <<65, 90, 610, FALSE>>,
      <<95, 95, 610, FALSE>>, <<98, 122, 610, FALSE>>
    >>],
  (* 485 *) [accept |-> "sym_identifier", eof |-> -1, tr |-> <<
      <<97, 97, 549, FALSE>>, <<48, 57, 610, FALSE>>, <<65, 90, 610, FALSE>>,
      <<95, 95, 610, FALSE>>, <<98, 122, 610, FALSE>>
    >>],
  (* 486 *) [accept |-> "sym_identifier", eof |-> -1, tr |-> <<
      <<97, 97, 580, FALSE>>, <<101, 101, 569, FALSE>>, <<111, 111, 574, FALSE>>,
      <<48, 57, 610, FALSE>>, <<65, 90, 610, FALSE>>, <<95, 95, 610, FALSE>>,
      <<98, 122, 610, FALSE>>
    >>],
  (* 487 *) [accept |-> "sym_identifier", eof |-> -1, tr |-> <<
      <<97, 97, 580, FALSE>>, <<101, 101, 569, FALSE>>, <<48, 57, 610, FALSE>>,
      <<65, 90, 610, FALSE>>, <<95, 95, 610, FALSE>>, <<98, 122, 610, FALSE>>
    >>],
  (* 488 *) [accept |-> "sym_identifier", eof |-> -1, tr |-> <<
      <<97, 97, 580, FALSE>>, <<48, 57, 610, FALSE>>, <<65, 90, 610, FALSE>>,
      <<95, 95, 610, FALSE>>, <<98, 122, 610, FALSE>>
    >>],
  (* 489 *) [accept |-> "sym_identifier", eof |-> -1, tr |-> <<
      <<97, 97, 592, FALSE>>, <<48, 57, 610, FALSE>>, <<65, 90, 610, FALSE>>,
      <<95, 95, 610, FALSE>>, <<98, 122, 610, FALSE>>
    >>],
  (* 490 *) [accept |-> "sym_identifier", eof |-> -1, tr |-> <<
      <<97, 97, 581, FALSE>>, <<48, 57, 610, FALSE>>, <<65, 90, 610, FALSE>>,
      <<95, 95, 610, FALSE>>, <<98, 122, 610, FALSE>>
    >>],
  (* 491 *) [accept |-> "sym_identifier", eof |-> -1, tr |-> <<
      <<99, 99, 544, FALSE>>, <<48, 57, 610, FALSE>>, <<65, 90, 610, FALSE>>,
      <<95, 95, 610, FALSE>>, <<97, 122, 610, FALSE>>
    >>],
  (* 492 *) [accept |-> "sym_identifier", eof |-> -1, tr |-> <<
      <<99, 99, 599, FALSE>>, <<48, 57, 610, FALSE>>, <<65, 90, 610, FALSE>>,
      <<95, 95, 610, FALSE>>, <<97, 122, 610, FALSE>>
    >>],
  (* 493 *) [accept |-> "sym_identifier", eof |-> -1, tr |-> <<
      <<100, 100, 494, FALSE>>, <<116, 116, 594, FALSE>>, <<48, 57, 610, FALSE>>,
      <<65, 90, 610, FALSE>>, <<95, 95, 610, FALSE>>, <<97, 122, 610, FALSE>>
    >>],
  (* 494 *) [accept |-> "sym_identifier", eof |-> -1, tr |-> <<
      <<100, 100, 433, FALSE>>, <<48, 57, 610, FALSE>>, <<65, 90, 610, FALSE>>,
      <<95, 95, 610, FALSE>>, <<97, 122, 610, FALSE>>
    >>],
  (* 495 *) [accept |-> "sym_identifier", eof |-> -1, tr |-> <<
      <<100, 100, 465, FALSE>>, <<48, 57, 370, FALSE>>, <<65, 90, 370, FALSE>>,
      <<95, 95, 370, FALSE>>, <<97, 122, 370, FALSE>>, <<1, 127, 369, FALSE>>
    >>],
  (* 496 *) [accept |-> "sym_identifier", eof |-> -1, tr |-> <<
      <<100, 100, 434, FALSE>>, <<48, 57, 610, FALSE>>, <<65, 90, 610, FALSE>>,
      <<95, 95, 610, FALSE>>, <<97, 122, 610, FALSE>>
    >>],
  (* 497 *) [accept |-> "sym_identifier", eof |-> -1, tr |-> <<
      <<100, 100, 471, FALSE>>, <<48, 57, 610, FALSE>>, <<65, 90, 610, FALSE>>,
      <<95, 95, 610, FALSE>>, <<97, 122, 610, FALSE>>
    >>],
  (* 498 *) [accept |-> "sym_identifier", eof |-> -1, tr |-> <<
      <<100, 100, 496, FALSE>>, <<116, 116, 594, FALSE>>, <<48, 57, 610, FALSE>>,
      <<65, 90, 610, FALSE>>, <<95, 95, 610, FALSE>>, <<97, 122, 610, FALSE>>
    >>],
  (* 499 *) [accept |-> "sym_identifier", eof |-> -1, tr |-> <<
      <<100, 100, 500, FALSE>>, <<48, 57, 610, FALSE>>, <<65, 90, 610, FALSE>>,
      <<95, 95, 610, FALSE>>, <<97, 122, 610, FALSE>>
    >>],
  (* 500 *) [accept |-> "sym_identifier", eof |-> -1, tr |-> <<
      <<100, 100, 512, FALSE>>, <<48, 57, 610, FALSE>>, <<65, 90, 610, FALSE>>,
      <<95, 95, 610, FALSE>>, <<97, 122, 610, FALSE>>
    >>],
  (* 501 *) [accept |-> "sym_identifier", eof |-> -1, tr |-> <<
      <<100, 100, 542, FALSE>>, <<48, 57, 610, FALSE>>, <<65, 90, 610, FALSE>>,
      <<95, 95, 610, FALSE>>, <<97, 122, 610, FALSE>>
    >>],
  (* 502 *) [accept |-> "sym_identifier", eof |-> -1, tr |-> <<
      <<100, 100, 589, FALSE>>, <<48, 57, 610, FALSE>>, <<65, 90, 610, FALSE>>,
      <<95, 95, 610, FALSE>>, <<97, 122, 610, FALSE>>
    >>],
  (* 503 *) [accept |-> "sym_identifier", eof |-> -1, tr |-> <<
      <<101, 101, 546, FALSE>>, <<117, 117, 537, FALSE>>, <<48, 57, 610, FALSE>>,
      <<65, 90, 610, FALSE>>, <<95, 95, 610, FALSE>>, <<97, 122, 610, FALSE>>
    >>],
  (* 504 *) [accept |-> "sym_identifier", eof |-> -1, tr |-> <<
      <<101, 101, 491, FALSE>>, <<105, 105, 583, FALSE>>, <<111, 111, 475, FALSE>>,
      <<48, 57, 610, FALSE>>, <<65, 90, 610, FALSE>>, <<95, 95, 610, FALSE>>,
      <<97, 122, 610, FALSE>>
    >>],
  (* 505 *) [accept |-> "sym_identifier", eof |-> -1, tr |-> <<
      <<101, 101, 555, FALSE>>, <<48, 57, 610, FALSE>>, <<65, 90, 610, FALSE>>,
      <<95, 95, 610, FALSE>>, <<97, 122, 610, FALSE>>
    >>],
  (* 506 *) [accept |-> "sym_identifier", eof |-> -1, tr |-> <<
      <<101, 101, 552, FALSE>>, <<105, 105, 588, FALSE>>, <<48, 57, 610, FALSE>>,
      <<65, 90, 610, FALSE>>, <<95, 95, 610, FALSE>>, <<97, 122, 610, FALSE>>
    >>],
  (* 507 *) [accept |-> "sym_identifier", eof |-> -1, tr |-> <<
      <<101, 101, 551, FALSE>>, <<48, 57, 610, FALSE>>, <<65, 90, 610, FALSE>>,
      <<95, 95, 610, FALSE>>, <<97, 122, 610, FALSE>>
    >>],
  (* 508 *) [accept |-> "sym_identifier", eof |-> -1, tr |-> <<
      <<101, 101, 468, FALSE>>, <<48, 57, 610, FALSE>>, <<65, 90, 610, FALSE>>,
      <<95, 95, 610, FALSE>>, <<97, 122, 610, FALSE>>
    >>],
  (* 509 *) [accept |-> "sym_identifier", eof |-> -1, tr |-> <<
      <<101, 101, 426, FALSE>>, <<48, 57, 610, FALSE>>, <<65, 90, 610, FALSE>>,
      <<95, 95, 610, FALSE>>, <<97, 122, 610, FALSE>>
    >>],
  (* 510 *) [accept |-> "sym_identifier", eof |-> -1, tr |-> <<
      <<101, 101, 437, FALSE>>, <<48, 57, 610, FALSE>>, <<65, 90, 610, FALSE>>,
      <<95, 95, 610, FALSE>>, <<97, 122, 610, FALSE>>
    >>],
  (* 511 *) [accept |-> "sym_identifier", eof |-> -1, tr |-> <<
      <<101, 101, 419, FALSE>>, <<48, 57, 610, FALSE>>, <<65, 90, 610, FALSE>>,
      <<95, 95, 610, FALSE>>, <<97, 122, 610, FALSE>>
    >>],
  (* 512 *) [accept |-> "sym_identifier", eof |-> -1, tr |-> <<
      <<101, 101, 497, FALSE>>, <<48, 57, 610, FALSE>>, <<65, 90, 610, FALSE>>,
      <<95, 95, 610, FALSE>>, <<97, 122, 610, FALSE>>
    >>],
  (* 513 *) [accept |-> "sym_identifier", eof |-> -1, tr |-> <<
      <<101, 101, 492, FALSE>>, <<48, 57, 610, FALSE>>, <<65, 90, 610, FALSE>>,
      <<95, 95, 610, FALSE>>, <<97, 122, 610, FALSE>>
    >>],
  (* 514 *) [accept |-> "sym_identifier", eof |-> -1, tr |-> <<
      <<101, 101, 559, FALSE>>, <<48, 57, 610, FALSE>>, <<65, 90, 610, FALSE>>,
      <<95, 95, 610, FALSE>>, <<97, 122, 610, FALSE>>
    >>],
  (* 515 *) [accept |-> "sym_identifier", eof |-> -1, tr |-> <<
      <<101, 101, 569, FALSE>>, <<111, 111, 574, FALSE>>, <<48, 57, 610, FALSE>>,
      <<65, 90, 610, FALSE>>, <<95, 95, 610, FALSE>>, <<97, 122, 610, FALSE>>
    >>],
  (* 516 *) [accept |-> "sym_identifier", eof |-> -1, tr |-> <<
      <<101, 101, 569, FALSE>>, <<48, 57, 610, FALSE>>, <<65, 90, 610, FALSE>>,
      <<95, 95, 610, FALSE>>, <<97, 122, 610, FALSE>>
    >>],
  (* 517 *) [accept |-> "sym_identifier", eof |-> -1, tr |-> <<
      <<101, 101, 489, FALSE>>, <<48, 57, 610, FALSE>>, <<65, 90, 610, FALSE>>,
      <<95, 95, 610, FALSE>>, <<97, 122, 610, FALSE>>
    >>],
  (* 518 *) [accept |-> "sym_identifier", eof |-> -1, tr |-> <<
      <<101, 101, 590, FALSE>>, <<116, 116, 486, FALSE>>, <<48, 57, 610, FALSE>>,
      <<65, 90, 610, FALSE>>, <<95, 95, 610, FALSE>>, <<97, 122, 610, FALSE>>
    >>],
  (* 519 *) [accept |-> "sym_identifier", eof |-> -1, tr |-> <<
      <<101, 101, 590, FALSE>>, <<116, 116, 487, FALSE>>, <<48, 57, 610, FALSE>>,
      <<65, 90, 610, FALSE>>, <<95, 95, 610, FALSE>>, <<97, 122, 610, FALSE>>
    >>],
  (* 520 *) [accept |-> "sym_identifier", eof |-> -1, tr |-> <<
      <<101, 101, 590, FALSE>>, <<116, 116, 515, FALSE>>, <<48, 57, 610, FALSE>>,
      <<65, 90, 610, FALSE>>, <<95, 95, 610, FALSE>>, <<97, 122, 610, FALSE>>
    >>],
  (* 521 *) [accept |-> "sym_identifier", eof |-> -1, tr |-> <<
      <<101, 101, 590, FALSE>>, <<116, 116, 516, FALSE>>, <<48, 57, 610, FALSE>>,
      <<65, 90, 610, FALSE>>, <<95, 95, 610, FALSE>>, <<97, 122, 610, FALSE>>
    >>],
  (* 522 *) [accept |-> "sym_identifier", eof |-> -1, tr |-> <<
      <<101, 101, 573, FALSE>>, <<48, 57, 610, FALSE>>, <<65, 90, 610, FALSE>>,
      <<95, 95, 610, FALSE>>, <<97, 122, 610, FALSE>>
    >>],
  (* 523 *) [accept |-> "sym_identifier", eof |-> -1, tr |-> <<
      <<101, 101, 480, FALSE>>, <<48, 57, 610, FALSE>>, <<65, 90, 610, FALSE>>,
      <<95, 95, 610, FALSE>>, <<97, 122, 610, FALSE>>
    >>],
  (* 524 *) [accept |-> "sym_identifier", eof |-> -1, tr |-> <<
      <<101, 101, 578, FALSE>>, <<48, 57, 610, FALSE>>, <<65, 90, 610, FALSE>>,
      <<95, 95, 610, FALSE>>, <<97, 122, 610, FALSE>>
    >>],
  (* 525 *) [accept |-> "sym_identifier", eof |-> -1, tr |-> <<
      <<101, 101, 553, FALSE>>, <<105, 105, 588, FALSE>>, <<48, 57, 610, FALSE>>,
      <<65, 90, 610, FALSE>>, <<95, 95, 610, FALSE>>, <<97, 122, 610, FALSE>>
    >>],
  (* 526 *) [accept |-> "sym_identifier", eof |-> -1, tr |-> <<
      <<102, 102, 414, FALSE>>, <<115, 115, 464, FALSE>>, <<48, 57, 610, FALSE>>,
      <<65, 90, 610, FALSE>>, <<95, 95, 610, FALSE>>, <<97, 122, 610, FALSE>>
    >>],
  (* 527 *) [accept |-> "sym_identifier", eof |-> -1, tr |-> <<
      <<102, 102, 415, FALSE>>, <<110, 110, 570, FALSE>>, <<115, 115, 464, FALSE>>,
      <<48, 57, 610, FALSE>>, <<65, 90, 610, FALSE>>, <<95, 95, 610, FALSE>>,
      <<97, 122, 610, FALSE>>
    >>],
  (* 528 *) [accept |-> "sym_identifier", eof |-> -1, tr |-> <<
      <<102, 102, 415, FALSE>>, <<110, 110, 570, FALSE>>, <<48, 57, 610, FALSE>>,
      <<65, 90, 610, FALSE>>, <<95, 95, 610, FALSE>>, <<97, 122, 610, FALSE>>
    >>],
  (* 529 *) [accept |-> "sym_identifier", eof |-> -1, tr |-> <<
      <<103, 103, 470, FALSE>>, <<48, 57, 610, FALSE>>, <<65, 90, 610, FALSE>>,
      <<95, 95, 610, FALSE>>, <<97, 122, 610, FALSE>>
    >>],
  (* 530 *) [accept |-> "sym_identifier", eof |-> -1, tr |-> <<
      <<103, 103, 483, FALSE>>, <<48, 57, 610, FALSE>>, <<65, 90, 610, FALSE>>,
      <<95, 95, 610, FALSE>>, <<97, 122, 610, FALSE>>
    >>],
  (* 531 *) [accept |-> "sym_identifier", eof |-> -1, tr |-> <<
      <<103, 103, 598, FALSE>>, <<48, 57, 610, FALSE>>, <<65, 90, 610, FALSE>>,
      <<95, 95, 610, FALSE>>, <<97, 122, 610, FALSE>>
    >>],
  (* 532 *) [accept |-> "sym_identifier", eof |-> -1, tr |-> <<
      <<103, 103, 587, FALSE>>, <<48, 57, 610, FALSE>>, <<65, 90, 610, FALSE>>,
      <<95, 95, 610, FALSE>>, <<97, 122, 610, FALSE>>
    >>],
  (* 533 *) [accept |-> "sym_identifier", eof |-> -1, tr |-> <<
      <<104, 104, 522, FALSE>>, <<48, 57, 610, FALSE>>, <<65, 90, 610, FALSE>>,
      <<95, 95, 610, FALSE>>, <<97, 122, 610, FALSE>>
    >>],
  (* 534 *) [accept |-> "sym_identifier", eof |-> -1, tr |-> <<
      <<104, 104, 472, FALSE>>, <<48, 57, 610, FALSE>>, <<65, 90, 610, FALSE>>,
      <<95, 95, 610, FALSE>>, <<97, 122, 610, FALSE>>
    >>],
  (* 535 *) [accept |-> "sym_identifier", eof |-> -1, tr |-> <<
      <<104, 104, 514, FALSE>>, <<48, 57, 610, FALSE>>, <<65, 90, 610, FALSE>>,
      <<95, 95, 610, FALSE>>, <<97, 122, 610, FALSE>>
    >>],
  (* 536 *) [accept |-> "sym_identifier", eof |-> -1, tr |-> <<
      <<104, 104, 539, FALSE>>, <<48, 57, 610, FALSE>>, <<65, 90, 610, FALSE>>,
      <<95, 95, 610, FALSE>>, <<97, 122, 610, FALSE>>
    >>],
  (* 537 *) [accept |-> "sym_identifier", eof |-> -1, tr |-> <<
      <<105, 105, 547, FALSE>>, <<48, 57, 610, FALSE>>, <<65, 90, 610, FALSE>>,
      <<95, 95, 610, FALSE>>, <<97, 122, 610, FALSE>>
    >>],
  (* 538 *) [accept |-> "sym_identifier", eof |-> -1, tr |-> <<
      <<105, 105, 591, FALSE>>, <<48, 57, 610, FALSE>>, <<65, 90, 610, FALSE>>,
      <<95, 95, 610, FALSE>>, <<97, 122, 610, FALSE>>
    >>],
  (* 539 *) [accept |-> "sym_identifier", eof |-> -1, tr |-> <<
      <<105, 105, 550, FALSE>>, <<48, 57, 610, FALSE>>, <<65, 90, 610, FALSE>>,
      <<95, 95, 610, FALSE>>, <<97, 122, 610, FALSE>>
    >>],
  (* 540 *) [accept |-> "sym_identifier", eof |-> -1, tr |-> <<
      <<105, 105, 586, FALSE>>, <<48, 57, 610, FALSE>>, <<65, 90, 610, FALSE>>,
      <<95, 95, 610, FALSE>>, <<97, 122, 610, FALSE>>
    >>],
  (* 541 *) [accept |-> "sym_identifier", eof |-> -1, tr |-> <<
      <<105, 105, 560, FALSE>>, <<48, 57, 610, FALSE>>, <<65, 90, 610, FALSE>>,
      <<95, 95, 610, FALSE>>, <<97, 122, 610, FALSE>>
    >>],
  (* 542 *) [accept |-> "sym_identifier", eof |-> -1, tr |-> <<
      <<105, 105, 563, FALSE>>, <<48, 57, 610, FALSE>>, <<65, 90, 610, FALSE>>,
      <<95, 95, 610, FALSE>>, <<97, 122, 610, FALSE>>
    >>],
  (* 543 *) [accept |-> "sym_identifier", eof |-> -1, tr |-> <<
      <<108, 108, 395, FALSE>>, <<48, 57, 610, FALSE>>, <<65, 90, 610, FALSE>>,
      <<95, 95, 610, FALSE>>, <<97, 122, 610, FALSE>>
    >>],
  (* 544 *) [accept |-> "sym_identifier", eof |-> -1, tr |-> <<
      <<108, 108, 490, FALSE>>, <<48, 57, 610, FALSE>>, <<65, 90, 610, FALSE>>,
      <<95, 95, 610, FALSE>>, <<97, 122, 610, FALSE>>
    >>],
  (* 545 *) [accept |-> "sym_identifier", eof |-> -1, tr |-> <<
      <<108, 108, 566, FALSE>>, <<111, 111, 575, FALSE>>, <<48, 57, 610, FALSE>>,
      <<65, 90, 610, FALSE>>, <<95, 95, 610, FALSE>>, <<97, 122, 610, FALSE>>
    >>],
  (* 546 *) [accept |-> "sym_identifier", eof |-> -1, tr |-> <<
      <<108, 108, 568, FALSE>>, <<48, 57, 610, FALSE>>, <<65, 90, 610, FALSE>>,
      <<95, 95, 610, FALSE>>, <<97, 122, 610, FALSE>>
    >>],
  (* 547 *) [accept |-> "sym_identifier", eof |-> -1, tr |-> <<
      <<108, 108, 501, FALSE>>, <<48, 57, 610, FALSE>>, <<65, 90, 610, FALSE>>,
      <<95, 95, 610, FALSE>>, <<97, 122, 610, FALSE>>
    >>],
  (* 548 *) [accept |-> "sym_identifier", eof |-> -1, tr |-> <<
      <<108, 108, 484, FALSE>>, <<48, 57, 610, FALSE>>, <<65, 90, 610, FALSE>>,
      <<95, 95, 610, FALSE>>, <<97, 122, 610, FALSE>>
    >>],
  (* 549 *) [accept |-> "sym_identifier", eof |-> -1, tr |-> <<
      <<108, 108, 543, FALSE>>, <<48, 57, 610, FALSE>>, <<65, 90, 610, FALSE>>,
      <<95, 95, 610, FALSE>>, <<97, 122, 610, FALSE>>
    >>],
  (* 550 *) [accept |-> "sym_identifier", eof |-> -1, tr |-> <<
      <<108, 108, 509, FALSE>>, <<48, 57, 610, FALSE>>, <<65, 90, 610, FALSE>>,
      <<95, 95, 610, FALSE>>, <<97, 122, 610, FALSE>>
    >>],
  (* 551 *) [accept |-> "sym_identifier", eof |-> -1, tr |-> <<
      <<109, 109, 572, FALSE>>, <<48, 57, 610, FALSE>>, <<65, 90, 610, FALSE>>,
      <<95, 95, 610, FALSE>>, <<97, 122, 610, FALSE>>
    >>],
  (* 552 *) [accept |-> "sym_identifier", eof |-> -1, tr |-> <<
      <<109, 109, 564, FALSE>>, <<112, 112, 517, FALSE>>, <<116, 116, 603, FALSE>>,
      <<48, 57, 610, FALSE>>, <<65, 90, 610, FALSE>>, <<95, 95, 610, FALSE>>,
      <<97, 122, 610, FALSE>>
    >>],
  (* 553 *) [accept |-> "sym_identifier", eof |-> -1, tr |-> <<
      <<109, 109, 564, FALSE>>, <<112, 112, 517, FALSE>>, <<116, 116, 604, FALSE>>,
      <<48, 57, 610, FALSE>>, <<65, 90, 610, FALSE>>, <<95, 95, 610, FALSE>>,
      <<97, 122, 610, FALSE>>
    >>],
  (* 554 *) [accept |-> "sym_identifier", eof |-> -1, tr |-> <<
      <<110, 110, 495, FALSE>>, <<120, 120, 367, FALSE>>, <<48, 57, 368, FALSE>>,
      <<65, 90, 368, FALSE>>, <<95, 95, 368, FALSE>>, <<97, 122, 368, FALSE>>,
      <<1, 127, 366, FALSE>>
    >>],
  (* 555 *) [accept |-> "sym_identifier", eof |-> -1, tr |-> <<
      <<110, 110, 531, FALSE>>, <<48, 57, 610, FALSE>>, <<65, 90, 610, FALSE>>,
      <<95, 95, 610, FALSE>>, <<97, 122, 610, FALSE>>
    >>],
  (* 556 *) [accept |-> "sym_identifier", eof |-> -1, tr |-> <<
      <<110, 110, 405, FALSE>>, <<48, 57, 610, FALSE>>, <<65, 90, 610, FALSE>>,
      <<95, 95, 610, FALSE>>, <<97, 122, 610, FALSE>>
    >>],
  (* 557 *) [accept |-> "sym_identifier", eof |-> -1, tr |-> <<
      <<110, 110, 407, FALSE>>, <<48, 57, 610, FALSE>>, <<65, 90, 610, FALSE>>,
      <<95, 95, 610, FALSE>>, <<97, 122, 610, FALSE>>
    >>],
  (* 558 *) [accept |-> "sym_identifier", eof |-> -1, tr |-> <<
      <<110, 110, 532, FALSE>>, <<48, 57, 610, FALSE>>, <<65, 90, 610, FALSE>>,
      <<95, 95, 610, FALSE>>, <<97, 122, 610, FALSE>>
    >>],
  (* 559 *) [accept |-> "sym_identifier", eof |-> -1, tr |-> <<
      <<110, 110, 469, FALSE>>, <<48, 57, 610, FALSE>>, <<65, 90, 610, FALSE>>,
      <<95, 95, 610, FALSE>>, <<97, 122, 610, FALSE>>
    >>],
  (* 560 *) [accept |-> "sym_identifier", eof |-> -1, tr |-> <<
      <<110, 110, 529, FALSE>>, <<48, 57, 610, FALSE>>, <<65, 90, 610, FALSE>>,
      <<95, 95, 610, FALSE>>, <<97, 122, 610, FALSE>>
    >>],
  (* 561 *) [accept |-> "sym_identifier", eof |-> -1, tr |-> <<
      <<110, 110, 502, FALSE>>, <<120, 120, 538, FALSE>>, <<48, 57, 610, FALSE>>,
      <<65, 90, 610, FALSE>>, <<95, 95, 610, FALSE>>, <<97, 122, 610, FALSE>>
    >>],
  (* 562 *) [accept |-> "sym_identifier", eof |-> -1, tr |-> <<
      <<110, 110, 502, FALSE>>, <<48, 57, 610, FALSE>>, <<65, 90, 610, FALSE>>,
      <<95, 95, 610, FALSE>>, <<97, 122, 610, FALSE>>
    >>],
  (* 563 *) [accept |-> "sym_identifier", eof |-> -1, tr |-> <<
      <<110, 110, 530, FALSE>>, <<48, 57, 610, FALSE>>, <<65, 90, 610, FALSE>>,
      <<95, 95, 610, FALSE>>, <<97, 122, 610, FALSE>>
    >>],
  (* 564 *) [accept |-> "sym_identifier", eof |-> -1, tr |-> <<
      <<111, 111, 606, FALSE>>, <<48, 57, 610, FALSE>>, <<65, 90, 610, FALSE>>,
      <<95, 95, 610, FALSE>>, <<97, 122, 610, FALSE>>
    >>],
  (* 565 *) [accept |-> "sym_identifier", eof |-> -1, tr |-> <<
      <<111, 111, 597, FALSE>>, <<48, 57, 610, FALSE>>, <<65, 90, 610, FALSE>>,
      <<95, 95, 610, FALSE>>, <<97, 122, 610, FALSE>>
    >>],
  (* 566 *) [accept |-> "sym_identifier", eof |-> -1, tr |-> <<
      <<111, 111, 567, FALSE>>, <<48, 57, 610, FALSE>>, <<65, 90, 610, FALSE>>,
      <<95, 95, 610, FALSE>>, <<97, 122, 610, FALSE>>
    >>],
  (* 567 *) [accept |-> "sym_identifier", eof |-> -1, tr |-> <<
      <<111, 111, 576, FALSE>>, <<48, 57, 610, FALSE>>, <<65, 90, 610, FALSE>>,
      <<95, 95, 610, FALSE>>, <<97, 122, 610, FALSE>>
    >>],
  (* 568 *) [accept |-> "sym_identifier", eof |-> -1, tr |-> <<
      <<111, 111, 558, FALSE>>, <<48, 57, 610, FALSE>>, <<65, 90, 610, FALSE>>,
      <<95, 95, 610, FALSE>>, <<97, 122, 610, FALSE>>
    >>],
  (* 569 *) [accept |-> "sym_identifier", eof |-> -1, tr |-> <<
      <<112, 112, 476, FALSE>>, <<48, 57, 610, FALSE>>, <<65, 90, 610, FALSE>>,
      <<95, 95, 610, FALSE>>, <<97, 122, 610, FALSE>>
    >>],
  (* 570 *) [accept |-> "sym_identifier", eof |-> -1, tr |-> <<
      <<112, 112, 605, FALSE>>, <<48, 57, 610, FALSE>>, <<65, 90, 610, FALSE>>,
      <<95, 95, 610, FALSE>>, <<97, 122, 610, FALSE>>
    >>],
  (* 571 *) [accept |-> "sym_identifier", eof |-> -1, tr |-> <<
      <<112, 112, 548, FALSE>>, <<48, 57, 610, FALSE>>, <<65, 90, 610, FALSE>>,
      <<95, 95, 610, FALSE>>, <<97, 122, 610, FALSE>>
    >>],
  (* 572 *) [accept |-> "sym_identifier", eof |-> -1, tr |-> <<
      <<112, 112, 600, FALSE>>, <<48, 57, 610, FALSE>>, <<65, 90, 610, FALSE>>,
      <<95, 95, 610, FALSE>>, <<97, 122, 610, FALSE>>
    >>],
  (* 573 *) [accept |-> "sym_identifier", eof |-> -1, tr |-> <<
      <<114, 114, 607, FALSE>>, <<48, 57, 610, FALSE>>, <<65, 90, 610, FALSE>>,
      <<95, 95, 610, FALSE>>, <<97, 122, 610, FALSE>>
    >>],
  (* 574 *) [accept |-> "sym_identifier", eof |-> -1, tr |-> <<
      <<114, 114, 541, FALSE>>, <<48, 57, 610, FALSE>>, <<65, 90, 610, FALSE>>,
      <<95, 95, 610, FALSE>>, <<97, 122, 610, FALSE>>
    >>],
  (* 575 *) [accept |-> "sym_identifier", eof |-> -1, tr |-> <<
      <<114, 114, 466, FALSE>>, <<48, 57, 610, FALSE>>, <<65, 90, 610, FALSE>>,
      <<95, 95, 610, FALSE>>, <<97, 122, 610, FALSE>>
    >>],
  (* 576 *) [accept |-> "sym_identifier", eof |-> -1, tr |-> <<
      <<114, 114, 477, FALSE>>, <<48, 57, 610, FALSE>>, <<65, 90, 610, FALSE>>,
      <<95, 95, 610, FALSE>>, <<97, 122, 610, FALSE>>
    >>],
  (* 577 *) [accept |-> "sym_identifier", eof |-> -1, tr |-> <<
      <<114, 114, 556, FALSE>>, <<48, 57, 610, FALSE>>, <<65, 90, 610, FALSE>>,
      <<95, 95, 610, FALSE>>, <<97, 122, 610, FALSE>>
    >>],
  (* 578 *) [accept |-> "sym_identifier", eof |-> -1, tr |-> <<
      <<114, 114, 478, FALSE>>, <<48, 57, 610, FALSE>>, <<65, 90, 610, FALSE>>,
      <<95, 95, 610, FALSE>>, <<97, 122, 610, FALSE>>
    >>],
  (* 579 *) [accept |-> "sym_identifier", eof |-> -1, tr |-> <<
      <<114, 114, 557, FALSE>>, <<48, 57, 610, FALSE>>, <<65, 90, 610, FALSE>>,
      <<95, 95, 610, FALSE>>, <<97, 122, 610, FALSE>>
    >>],
  (* 580 *) [accept |-> "sym_identifier", eof |-> -1, tr |-> <<
      <<114, 114, 596, FALSE>>, <<48, 57, 610, FALSE>>, <<65, 90, 610, FALSE>>,
      <<95, 95, 610, FALSE>>, <<97, 122, 610, FALSE>>
    >>],
  (* 581 *) [accept |-> "sym_identifier", eof |-> -1, tr |-> <<
      <<114, 114, 523, FALSE>>, <<48, 57, 610, FALSE>>, <<65, 90, 610, FALSE>>,
      <<95, 95, 610, FALSE>>, <<97, 122, 610, FALSE>>
    >>],
  (* 582 *) [accept |-> "sym_identifier", eof |-> -1, tr |-> <<
      <<115, 115, 464, FALSE>>, <<48, 57, 610, FALSE>>, <<65, 90, 610, FALSE>>,
      <<95, 95, 610, FALSE>>, <<97, 122, 610, FALSE>>
    >>],
  (* 583 *) [accept |-> "sym_identifier", eof |-> -1, tr |-> <<
      <<115, 115, 571, FALSE>>, <<48, 57, 610, FALSE>>, <<65, 90, 610, FALSE>>,
      <<95, 95, 610, FALSE>>, <<97, 122, 610, FALSE>>
    >>],
  (* 584 *) [accept |-> "sym_identifier", eof |-> -1, tr |-> <<
      <<115, 115, 474, FALSE>>, <<48, 57, 610, FALSE>>, <<65, 90, 610, FALSE>>,
      <<95, 95, 610, FALSE>>, <<97, 122, 610, FALSE>>
    >>],
  (* 585 *) [accept |-> "sym_identifier", eof |-> -1, tr |-> <<
      <<115, 115, 481, FALSE>>, <<48, 57, 610, FALSE>>, <<65, 90, 610, FALSE>>,
      <<95, 95, 610, FALSE>>, <<97, 122, 610, FALSE>>
    >>],
  (* 586 *) [accept |-> "sym_identifier", eof |-> -1, tr |-> <<
      <<115, 115, 511, FALSE>>, <<48, 57, 610, FALSE>>, <<65, 90, 610, FALSE>>,
      <<95, 95, 610, FALSE>>, <<97, 122, 610, FALSE>>
    >>],
  (* 587 *) [accept |-> "sym_identifier", eof |-> -1, tr |-> <<
      <<115, 115, 473, FALSE>>, <<48, 57, 610, FALSE>>, <<65, 90, 610, FALSE>>,
      <<95, 95, 610, FALSE>>, <<97, 122, 610, FALSE>>
    >>],
  (* 588 *) [accept |-> "sym_identifier", eof |-> -1, tr |-> <<
      <<115, 115, 524, FALSE>>, <<48, 57, 610, FALSE>>, <<65, 90, 610, FALSE>>,
      <<95, 95, 610, FALSE>>, <<97, 122, 610, FALSE>>
    >>],
  (* 589 *) [accept |-> "sym_identifier", eof |-> -1, tr |-> <<
      <<115, 115, 467, FALSE>>, <<48, 57, 610, FALSE>>, <<65, 90, 610, FALSE>>,
      <<95, 95, 610, FALSE>>, <<97, 122, 610, FALSE>>
    >>],
  (* 590 *) [accept |-> "sym_identifier", eof |-> -1, tr |-> <<
      <<116, 116, 392, FALSE>>, <<48, 57, 610, FALSE>>, <<65, 90, 610, FALSE>>,
      <<95, 95, 610, FALSE>>, <<97, 122, 610, FALSE>>
    >>],
  (* 591 *) [accept |-> "sym_identifier", eof |-> -1, tr |-> <<
      <<116, 116, 410, FALSE>>, <<48, 57, 610, FALSE>>, <<65, 90, 610, FALSE>>,
      <<95, 95, 610, FALSE>>, <<97, 122, 610, FALSE>>
    >>],
  (* 592 *) [accept |-> "sym_identifier", eof |-> -1, tr |-> <<
      <<116, 116, 421, FALSE>>, <<48, 57, 610, FALSE>>, <<65, 90, 610, FALSE>>,
      <<95, 95, 610, FALSE>>, <<97, 122, 610, FALSE>>
    >>],
  (* 593 *) [accept |-> "sym_identifier", eof |-> -1, tr |-> <<
      <<116, 116, 402, FALSE>>, <<48, 57, 610, FALSE>>, <<65, 90, 610, FALSE>>,
      <<95, 95, 610, FALSE>>, <<97, 122, 610, FALSE>>
    >>],
  (* 594 *) [accept |-> "sym_identifier", eof |-> -1, tr |-> <<
      <<116, 116, 507, FALSE>>, <<48, 57, 610, FALSE>>, <<65, 90, 610, FALSE>>,
      <<95, 95, 610, FALSE>>, <<97, 122, 610, FALSE>>
    >>],
  (* 595 *) [accept |-> "sym_identifier", eof |-> -1, tr |-> <<
      <<116, 116, 533, FALSE>>, <<48, 57, 610, FALSE>>, <<65, 90, 610, FALSE>>,
      <<95, 95, 610, FALSE>>, <<97, 122, 610, FALSE>>
    >>],
  (* 596 *) [accept |-> "sym_identifier", eof |-> -1, tr |-> <<
      <<116, 116, 584, FALSE>>, <<48, 57, 610, FALSE>>, <<65, 90, 610, FALSE>>,
      <<95, 95, 610, FALSE>>, <<97, 122, 610, FALSE>>
    >>],
  (* 597 *) [accept |-> "sym_identifier", eof |-> -1, tr |-> <<
      <<116, 116, 508, FALSE>>, <<48, 57, 610, FALSE>>, <<65, 90, 610, FALSE>>,
      <<95, 95, 610, FALSE>>, <<97, 122, 610, FALSE>>
    >>],
  (* 598 *) [accept |-> "sym_identifier", eof |-> -1, tr |-> <<
      <<116, 116, 534, FALSE>>, <<48, 57, 610, FALSE>>, <<65, 90, 610, FALSE>>,
      <<95, 95, 610, FALSE>>, <<97, 122, 610, FALSE>>
    >>],
  (* 599 *) [accept |-> "sym_identifier", eof |-> -1, tr |-> <<
      <<116, 116, 585, FALSE>>, <<48, 57, 610, FALSE>>, <<65, 90, 610, FALSE>>,
      <<95, 95, 610, FALSE>>, <<97, 122, 610, FALSE>>
    >>],
  (* 600 *) [accept |-> "sym_identifier", eof |-> -1, tr |-> <<
      <<116, 116, 479, FALSE>>, <<48, 57, 610, FALSE>>, <<65, 90, 610, FALSE>>,
      <<95, 95, 610, FALSE>>, <<97, 122, 610, FALSE>>
    >>],
  (* 601 *) [accept |-> "sym_identifier", eof |-> -1, tr |-> <<
      <<116, 116, 488, FALSE>>, <<48, 57, 610, FALSE>>, <<65, 90, 610, FALSE>>,
      <<95, 95, 610, FALSE>>, <<97, 122, 610, FALSE>>
    >>],
  (* 602 *) [accept |-> "sym_identifier", eof |-> -1, tr |-> <<
      <<117, 117, 537, FALSE>>, <<48, 57, 610, FALSE>>, <<65, 90, 610, FALSE>>,
      <<95, 95, 610, FALSE>>, <<97, 122, 610, FALSE>>
    >>],
  (* 603 *) [accept |-> "sym_identifier", eof |-> -1, tr |-> <<
      <<117, 117, 577, FALSE>>, <<48, 57, 610, FALSE>>, <<65, 90, 610, FALSE>>,
      <<95, 95, 610, FALSE>>, <<97, 122, 610, FALSE>>
    >>],
  (* 604 *) [accept |-> "sym_identifier", eof |-> -1, tr |-> <<
      <<117, 117, 579, FALSE>>, <<48, 57, 610, FALSE>>, <<65, 90, 610, FALSE>>,
      <<95, 95, 610, FALSE>>, <<97, 122, 610, FALSE>>
    >>],
  (* 605 *) [accept |-> "sym_identifier", eof |-> -1, tr |-> <<
      <<117, 117, 593, FALSE>>, <<48, 57, 610, FALSE>>, <<65, 90, 610, FALSE>>,
      <<95, 95, 610, FALSE>>, <<97, 122, 610, FALSE>>
    >>],
  (* 606 *) [accept |-> "sym_identifier", eof |-> -1, tr |-> <<
      <<118, 118, 510, FALSE>>, <<48, 57, 610, FALSE>>, <<65, 90, 610, FALSE>>,
      <<95, 95, 610, FALSE>>, <<97, 122, 610, FALSE>>
    >>],
  (* 607 *) [accept |-> "sym_identifier", eof |-> -1, tr |-> <<
      <<119, 119, 540, FALSE>>, <<48, 57, 610, FALSE>>, <<65, 90, 610, FALSE>>,
      <<95, 95, 610, FALSE>>, <<97, 122, 610, FALSE>>
    >>],
  (* 608 *) [accept |-> "sym_identifier", eof |-> -1, tr |-> <<
      <<120, 120, 538, FALSE>>, <<48, 57, 610, FALSE>>, <<65, 90, 610, FALSE>>,
      <<95, 95, 610, FALSE>>, <<97, 122, 610, FALSE>>
    >>],
  (* 609 *) [accept |-> "sym_identifier", eof |-> -1, tr |-> <<
      <<121, 121, 399, FALSE>>, <<48, 57, 610, FALSE>>, <<65, 90, 610, FALSE>>,
      <<95, 95, 610, FALSE>>, <<97, 122, 610, FALSE>>
    >>],
  (* 610 *) [accept |-> "sym_identifier", eof |-> -1, tr |-> <<
      <<48, 57, 610, FALSE>>, <<65, 90, 610, FALSE>>, <<95, 95, 610, FALSE>>,
      <<97, 122, 610, FALSE>>
    >>],
  (* 611 *) [accept |-> "sym__newline", eof |-> -1, tr |-> <<>>]
  >>

\* ts_lex_keywords: one record per case of the switch, indexed by state + 1.
\*   accept: the ACCEPT_TOKEN of the case ("" when it has none);
\*   eof:    the target of `if (eof) ADVANCE(..)` (-1 when it has none);
\*   tr:     the character tests in source order, <<lo, hi, target, skip>>:
\*           lo <= lookahead <= hi leads to ADVANCE(target), or SKIP(target) when skip.
ts_lex_keywords_states ==
  <<
  (* 0 *) [accept |-> "", eof |-> -1, tr |-> <<
      <<97, 97, 1, FALSE>>, <<98, 98, 2, FALSE>>, <<99, 99, 3, FALSE>>, <<101, 101, 4, FALSE>>,
      <<102, 102, 5, FALSE>>, <<105, 105, 6, FALSE>>, <<108, 108, 7, FALSE>>,
      <<110, 110, 8, FALSE>>, <<111, 111, 9, FALSE>>, <<116, 116, 10, FALSE>>,
      <<119, 119, 11, FALSE>>, <<9, 9, 0, TRUE>>, <<32, 32, 0, TRUE>>
    >>],
  (* 1 *) [accept |-> "", eof |-> -1, tr |-> <<<<110, 110, 12, FALSE>>, <<115, 115, 13, FALSE>>>>],
  (* 2 *) [accept |-> "", eof |-> -1, tr |-> <<<<111, 111, 14, FALSE>>>>],
  (* 3 *) [accept |-> "", eof |-> -1, tr |-> <<<<111, 111, 15, FALSE>>>>],
  (* 4 *) [accept |-> "", eof |-> -1, tr |-> <<<<113, 113, 16, FALSE>>>>],
  (* 5 *) [accept |-> "", eof |-> -1, tr |-> <<
      <<97, 97, 17, FALSE>>, <<105, 105, 18, FALSE>>, <<114, 114, 19, FALSE>>
    >>],
  (* 6 *) [accept |-> "", eof |-> -1, tr |-> <<<<110, 110, 20, FALSE>>>>],
  (* 7 *) [accept |-> "", eof |-> -1, tr |-> <<<<105, 105, 21, FALSE>>>>],
  (* 8 *) [accept |-> "", eof |-> -1, tr |-> <<<<111, 111, 22, FALSE>>, <<117, 117, 23, FALSE>>>>],
  (* 9 *) [accept |-> "", eof |-> -1, tr |-> <<<<114, 114, 24, FALSE>>>>],
  (* 10 *) [accept |-> "", eof |-> -1, tr |-> <<
      <<97, 97, 25, FALSE>>, <<101, 101, 26, FALSE>>, <<105, 105, 27, FALSE>>,
      <<111, 111, 28, FALSE>>, <<114, 114, 29, FALSE>>
    >>],
  (* 11 *) [accept |-> "", eof |-> -1, tr |-> <<<<105, 105, 30, FALSE>>>>],
  (* 12 *) [accept |-> "", eof |-> -1, tr |-> <<<<100, 100, 31, FALSE>>>>],
  (* 13 *) [accept |-> "anon_sym_as", eof |-> -1, tr |-> <<>>],
  (* 14 *) [accept |-> "", eof |-> -1, tr |-> <<<<111, 111, 32, FALSE>>>>],
  (* 15 *) [accept |-> "", eof |-> -1, tr |-> <<<<110, 110, 33, FALSE>>>>],
  (* 16 *) [accept |-> "", eof |-> -1, tr |-> <<<<117, 117, 34, FALSE>>>>],
  (* 17 *) [accept |-> "", eof |-> -1, tr |-> <<<<108, 108, 35, FALSE>>>>],
  (* 18 *) [accept |-> "", eof |-> -1, tr |-> <<<<120, 120, 36, FALSE>>>>],
  (* 19 *) [accept |-> "", eof |-> -1, tr |-> <<<<111, 111, 37, FALSE>>>>],
  (* 20 *) [accept |-> "anon_sym_in", eof |-> -1, tr |-> <<>>],
  (* 21 *) [accept |-> "", eof |-> -1, tr |-> <<<<115, 115, 38, FALSE>>>>],
  (* 22 *) [accept |-> "", eof |-> -1, tr |-> <<<<116, 116, 39, FALSE>>>>],
  (* 23 *) [accept |-> "", eof |-> -1, tr |-> <<<<109, 109, 40, FALSE>>>>],
  (* 24 *) [accept |-> "anon_sym_or", eof |-> -1, tr |-> <<>>],
  (* 25 *) [accept |-> "", eof |-> -1, tr |-> <<<<98, 98, 41, FALSE>>>>],
  (* 26 *) [accept |-> "", eof |-> -1, tr |-> <<<<120, 120, 42, FALSE>>>>],
  (* 27 *) [accept |-> "", eof |-> -1, tr |-> <<<<109, 109, 43, FALSE>>>>],
  (* 28 *) [accept |-> "anon_sym_to", eof |-> -1, tr |-> <<>>],
  (* 29 *) [accept |-> "", eof |-> -1, tr |-> <<<<117, 117, 44, FALSE>>>>],
  (* 30 *) [accept |-> "", eof |-> -1, tr |-> <<<<116, 116, 45, FALSE>>>>],
  (* 31 *) [accept |-> "anon_sym_and", eof |-> -1, tr |-> <<>>],
  (* 32 *) [accept |-> "", eof |-> -1, tr |-> <<<<108, 108, 46, FALSE>>>>],
  (* 33 *) [accept |-> "", eof |-> -1, tr |-> <<<<116, 116, 47, FALSE>>>>],
  (* 34 *) [accept |-> "", eof |-> -1, tr |-> <<<<97, 97, 48, FALSE>>>>],
  (* 35 *) [accept |-> "", eof |-> -1, tr |-> <<<<115, 115, 49, FALSE>>>>],
  (* 36 *) [accept |-> "", eof |-> -1, tr |-> <<<<101, 101, 50, FALSE>>>>],
  (* 37 *) [accept |-> "", eof |-> -1, tr |-> <<<<109, 109, 51, FALSE>>>>],
  (* 38 *) [accept |-> "", eof |-> -1, tr |-> <<<<116, 116, 52, FALSE>>>>],
  (* 39 *) [accept |-> "anon_sym_not", eof |-> -1, tr |-> <<<<104, 104, 53, FALSE>>>>],
  (* 40 *) [accept |-> "", eof |-> -1, tr |-> <<<<98, 98, 54, FALSE>>>>],
  (* 41 *) [accept |-> "", eof |-> -1, tr |-> <<<<108, 108, 55, FALSE>>>>],
  (* 42 *) [accept |-> "", eof |-> -1, tr |-> <<<<116, 116, 56, FALSE>>>>],
  (* 43 *) [accept |-> "", eof |-> -1, tr |-> <<<<101, 101, 57, FALSE>>>>],
  (* 44 *) [accept |-> "", eof |-> -1, tr |-> <<<<101, 101, 58, FALSE>>>>],
  (* 45 *) [accept |-> "", eof |-> -1, tr |-> <<<<104, 104, 59, FALSE>>>>],
  (* 46 *) [accept |-> "", eof |-> -1, tr |-> <<<<101, 101, 60, FALSE>>>>],
  (* 47 *) [accept |-> "", eof |-> -1, tr |-> <<<<97, 97, 61, FALSE>>>>],
  (* 48 *) [accept |-> "", eof |-> -1, tr |-> <<<<108, 108, 62, FALSE>>>>],
  (* 49 *) [accept |-> "", eof |-> -1, tr |-> <<<<101, 101, 63, FALSE>>>>],
  (* 50 *) [accept |-> "", eof |-> -1, tr |-> <<<<100, 100, 64, FALSE>>>>],
  (* 51 *) [accept |-> "anon_sym_from", eof |-> -1, tr |-> <<>>],
  (* 52 *) [accept |-> "anon_sym_list", eof |-> -1, tr |-> <<>>],
  (* 53 *) [accept |-> "", eof |-> -1, tr |-> <<<<105, 105, 65, FALSE>>>>],
  (* 54 *) [accept |-> "", eof |-> -1, tr |-> <<<<101, 101, 66, FALSE>>>>],
  (* 55 *) [accept |-> "", eof |-> -1, tr |-> <<<<101, 101, 67, FALSE>>>>],
  (* 56 *) [accept |-> "anon_sym_text", eof |-> -1, tr |-> <<>>],
  (* 57 *) [accept |-> "", eof |-> -1, tr |-> <<<<115, 115, 68, FALSE>>>>],
  (* 58 *) [accept |-> "anon_sym_true", eof |-> -1, tr |-> <<>>],
  (* 59 *) [accept |-> "anon_sym_with", eof |-> -1, tr |-> <<>>],
  (* 60 *) [accept |-> "", eof |-> -1, tr |-> <<<<97, 97, 69, FALSE>>>>],
  (* 61 *) [accept |-> "", eof |-> -1, tr |-> <<<<105, 105, 70, FALSE>>>>],
  (* 62 *) [accept |-> "", eof |-> -1, tr |-> <<<<115, 115, 71, FALSE>>>>],
  (* 63 *) [accept |-> "anon_sym_false", eof |-> -1, tr |-> <<>>],
  (* 64 *) [accept |-> "anon_sym_fixed", eof |-> -1, tr |-> <<>>],
  (* 65 *) [accept |-> "", eof |-> -1, tr |-> <<<<110, 110, 72, FALSE>>>>],
  (* 66 *) [accept |-> "", eof |-> -1, tr |-> <<<<114, 114, 73, FALSE>>>>],
  (* 67 *) [accept |-> "anon_sym_table", eof |-> -1, tr |-> <<>>],
  (* 68 *) [accept |-> "anon_sym_times", eof |-> -1, tr |-> <<>>],
  (* 69 *) [accept |-> "", eof |-> -1, tr |-> <<<<110, 110, 74, FALSE>>>>],
  (* 70 *) [accept |-> "", eof |-> -1, tr |-> <<<<110, 110, 75, FALSE>>>>],
  (* 71 *) [accept |-> "anon_sym_equals", eof |-> -1, tr |-> <<>>],
  (* 72 *) [accept |-> "", eof |-> -1, tr |-> <<<<103, 103, 76, FALSE>>>>],
  (* 73 *) [accept |-> "anon_sym_number", eof |-> -1, tr |-> <<>>],
  (* 74 *) [accept |-> "anon_sym_boolean", eof |-> -1, tr |-> <<>>],
  (* 75 *) [accept |-> "", eof |-> -1, tr |-> <<<<115, 115, 77, FALSE>>>>],
  (* 76 *) [accept |-> "sym_nothing", eof |-> -1, tr |-> <<>>],
  (* 77 *) [accept |-> "anon_sym_contains", eof |-> -1, tr |-> <<>>]
  >>

\* ts_lex_modes: the lexer start state of every parse state, indexed by state + 1.
ts_lex_modes ==
  <<
    0, 262, 258, 258, 258, 258, 259, 258, 258, 258, 258, 258, 259, 258, 259, 258, 258, 258, 258,
    258, 258, 259, 259, 259, 260, 262, 262, 259, 261, 261, 261, 261, 257, 261, 261, 261, 263, 263,
    263, 263, 263, 262, 263, 263, 262, 264, 263, 263, 263, 262, 266, 262, 263, 263, 263, 265, 262,
    262, 360, 262, 262, 262, 262, 262, 262, 262, 262, 262, 262, 262, 19, 262, 262, 262, 262, 262,
    262, 262, 262, 262, 262, 262, 262, 262, 262, 262, 262, 19, 19, 19, 19, 21, 19, 19, 19, 19, 19,
    19, 19, 19, 21, 19, 19, 19, 21, 19, 21, 19, 19, 19, 21, 19, 19, 69, 19, 19, 69, 69, 252, 252,
    252, 252, 20, 20, 20, 252, 252, 252, 252, 0, 252, 252, 252, 0, 252, 252, 252, 0, 252, 252, 252,
    252, 252, 252, 262, 252, 252, 252, 252, 252, 252
  >>

\* ts_parse_table: the rows of the large states 0 and 1, indexed by state + 1. A terminal
\* maps to ACTIONS(i), an index into ts_parse_actions; a non-terminal to STATE(s).
ts_parse_table ==
  <<
  (* [0] *) {
      <<"ts_builtin_sym_end", 1>>, <<"sym_identifier", 1>>, <<"anon_sym_do_COLON", 1>>,
      <<"anon_sym_declare_COLON", 1>>, <<"anon_sym_note_COLON", 1>>,
      <<"anon_sym_noteblock_COLON", 1>>, <<"anon_sym_endnote", 1>>,
      <<"aux_sym_block_comment_content_token2", 1>>, <<"aux_sym_block_comment_content_token3", 1>>,
      <<"aux_sym_block_comment_content_token4", 1>>, <<"aux_sym_block_comment_content_token5", 1>>,
      <<"aux_sym_block_comment_content_token6", 1>>, <<"aux_sym_block_comment_content_token7", 1>>,
      <<"aux_sym_block_comment_content_token8", 1>>, <<"anon_sym_building_COLON", 1>>,
      <<"anon_sym_floor_COLON", 1>>, <<"anon_sym_step_COLON", 1>>, <<"anon_sym_riser_COLON", 1>>,
      <<"anon_sym_belongsto_COLON", 1>>, <<"anon_sym_expects_COLON", 1>>,
      <<"anon_sym_returns_COLON", 1>>, <<"anon_sym_COMMA", 1>>, <<"anon_sym_as", 1>>,
      <<"anon_sym_number", 1>>, <<"anon_sym_text", 1>>, <<"anon_sym_boolean", 1>>,
      <<"anon_sym_list", 1>>, <<"anon_sym_table", 1>>, <<"anon_sym_fixed", 1>>,
      <<"anon_sym_EQ", 1>>, <<"anon_sym_set", 1>>, <<"anon_sym_to", 1>>, <<"anon_sym_call", 1>>,
      <<"anon_sym_with", 1>>, <<"anon_sym_storingresultin", 1>>, <<"anon_sym_display", 1>>,
      <<"anon_sym_return", 1>>, <<"sym_exit_statement", 1>>, <<"anon_sym_if", 1>>,
      <<"anon_sym_otherwiseif", 1>>, <<"anon_sym_otherwise", 1>>, <<"anon_sym_repeat", 1>>,
      <<"anon_sym_times", 1>>, <<"anon_sym_foreach", 1>>, <<"anon_sym_in", 1>>,
      <<"anon_sym_while", 1>>, <<"anon_sym_attempt_COLON", 1>>,
      <<"anon_sym_ifunsuccessful_COLON", 1>>, <<"anon_sym_thencontinue_COLON", 1>>,
      <<"anon_sym_add", 1>>, <<"anon_sym_remove", 1>>, <<"anon_sym_from", 1>>,
      <<"anon_sym_DQUOTE", 1>>, <<"sym_escape_sequence", 1>>, <<"anon_sym_true", 1>>,
      <<"anon_sym_false", 1>>, <<"sym_nothing", 1>>, <<"anon_sym_LBRACK", 1>>,
      <<"anon_sym_RBRACK", 1>>, <<"anon_sym_PLUS", 1>>, <<"anon_sym_DASH", 1>>,
      <<"anon_sym_STAR", 1>>, <<"anon_sym_SLASH", 1>>, <<"anon_sym_isequalto", 1>>,
      <<"anon_sym_equals", 1>>, <<"anon_sym_isnotequalto", 1>>, <<"anon_sym_islessthan", 1>>,
      <<"anon_sym_isgreaterthan", 1>>, <<"anon_sym_islessthanorequalto", 1>>,
      <<"anon_sym_isgreaterthanorequalto", 1>>, <<"anon_sym_and", 1>>, <<"anon_sym_or", 1>>,
      <<"anon_sym_addedto", 1>>, <<"anon_sym_contains", 1>>, <<"anon_sym_startswith", 1>>,
      <<"anon_sym_endswith", 1>>, <<"anon_sym_isin", 1>>, <<"anon_sym_not", 1>>,
      <<"anon_sym_lengthof", 1>>, <<"anon_sym_LPAREN", 1>>, <<"anon_sym_RPAREN", 1>>,
      <<"sym__newline", 1>>
    },
  (* [1] *) {
      <<"ts_builtin_sym_end", 3>>, <<"anon_sym_do_COLON", 5>>, <<"anon_sym_declare_COLON", 7>>,
      <<"anon_sym_note_COLON", 9>>, <<"anon_sym_noteblock_COLON", 11>>,
      <<"anon_sym_building_COLON", 13>>, <<"anon_sym_floor_COLON", 15>>,
      <<"anon_sym_step_COLON", 17>>, <<"anon_sym_riser_COLON", 19>>, <<"anon_sym_set", 21>>,
      <<"anon_sym_call", 23>>, <<"anon_sym_display", 25>>, <<"anon_sym_input", 27>>,
      <<"anon_sym_return", 29>>, <<"sym_exit_statement", 31>>, <<"anon_sym_if", 33>>,
      <<"anon_sym_repeat", 35>>, <<"anon_sym_foreach", 37>>, <<"anon_sym_while", 39>>,
      <<"anon_sym_attempt_COLON", 41>>, <<"anon_sym_add", 43>>, <<"anon_sym_remove", 45>>,
      <<"sym__newline", 31>>, <<"sym_source_file", 129>>, <<"sym__statement", 26>>,
      <<"sym_section_marker", 26>>, <<"sym_comment", 26>>, <<"sym_block_comment", 26>>,
      <<"sym_structure_definition", 26>>, <<"sym_building_def", 67>>, <<"sym_floor_def", 67>>,
      <<"sym_step_def", 67>>, <<"sym_riser_def", 67>>, <<"sym_declaration", 26>>,
      <<"sym_assignment", 26>>, <<"sym_call_statement", 26>>, <<"sym_display_statement", 26>>,
      <<"sym_input_statement", 26>>, <<"sym_return_statement", 26>>, <<"sym_if_statement", 26>>,
      <<"sym_repeat_statement", 26>>, <<"sym_for_each_statement", 26>>,
      <<"sym_while_statement", 26>>, <<"sym_attempt_statement", 26>>, <<"sym_add_statement", 26>>,
      <<"sym_remove_statement", 26>>, <<"aux_sym_source_file_repeat1", 26>>
    }
  >>

\* ts_small_parse_table: the rows of the states from LARGE_STATE_COUNT on, indexed by
\* SMALL_STATE(state) + 1. A row is its groups in source order, <<value, symbols>>:
\* every symbol of the group maps to value, ACTIONS(i) for terminals, STATE(s) otherwise.
ts_small_parse_table ==
  <<
  (* state 2, [0] *) <<
      <<51, {"anon_sym_LBRACK"}>>, <<8, {"aux_sym_argument_list_repeat1"}>>,
      <<96, {"sym_binary_operator"}>>, <<49, {"anon_sym_otherwise", "anon_sym_add"}>>,
      <<55, {"anon_sym_islessthan", "anon_sym_isgreaterthan"}>>,
      <<53, {"anon_sym_PLUS", "anon_sym_DASH", "anon_sym_STAR", "anon_sym_SLASH",
          "anon_sym_isequalto", "anon_sym_equals", "anon_sym_isnotequalto",
          "anon_sym_islessthanorequalto", "anon_sym_isgreaterthanorequalto", "anon_sym_and",
          "anon_sym_or", "anon_sym_addedto", "anon_sym_contains", "anon_sym_startswith",
          "anon_sym_endswith", "anon_sym_isin"}>>,
      <<47, {"ts_builtin_sym_end", "anon_sym_do_COLON", "anon_sym_declare_COLON",
          "anon_sym_note_COLON", "anon_sym_noteblock_COLON", "anon_sym_building_COLON",
          "anon_sym_floor_COLON", "anon_sym_step_COLON", "anon_sym_riser_COLON", "anon_sym_COMMA",
          "anon_sym_set", "anon_sym_to", "anon_sym_call", "anon_sym_storingresultin",
          "anon_sym_display", "anon_sym_input", "anon_sym_return", "sym_exit_statement",
          "anon_sym_if", "anon_sym_otherwiseif", "anon_sym_repeat", "anon_sym_times",
          "anon_sym_foreach", "anon_sym_while", "anon_sym_attempt_COLON", "anon_sym_remove",
          "anon_sym_from", "anon_sym_RBRACK", "anon_sym_RPAREN", "sym__newline"}>>
    >>,
  (* state 3, [68] *) <<
      <<59, {"anon_sym_with"}>>, <<20, {"sym_with_clause"}>>,
      <<61, {"anon_sym_otherwise", "anon_sym_add", "anon_sym_islessthan", "anon_sym_isgreaterthan"}>>,
      <<57, {"ts_builtin_sym_end", "anon_sym_do_COLON", "anon_sym_declare_COLON",
          "anon_sym_note_COLON", "anon_sym_noteblock_COLON", "anon_sym_building_COLON",
          "anon_sym_floor_COLON", "anon_sym_step_COLON", "anon_sym_riser_COLON", "anon_sym_COMMA",
          "anon_sym_set", "anon_sym_to", "anon_sym_call", "anon_sym_storingresultin",
          "anon_sym_display", "anon_sym_input", "anon_sym_return", "sym_exit_statement",
          "anon_sym_if", "anon_sym_otherwiseif", "anon_sym_repeat", "anon_sym_times",
          "anon_sym_foreach", "anon_sym_while", "anon_sym_attempt_COLON", "anon_sym_remove",
          "anon_sym_from", "anon_sym_LBRACK", "anon_sym_RBRACK", "anon_sym_PLUS", "anon_sym_DASH",
          "anon_sym_STAR", "anon_sym_SLASH", "anon_sym_isequalto", "anon_sym_equals",
          "anon_sym_isnotequalto", "anon_sym_islessthanorequalto", "anon_sym_isgreaterthanorequalto",
          "anon_sym_and", "anon_sym_or", "anon_sym_addedto", "anon_sym_contains",
          "anon_sym_startswith", "anon_sym_endswith", "anon_sym_isin", "anon_sym_RPAREN",
          "sym__newline"}>>
    >>,
  (* state 4, [130] *) <<
      <<51, {"anon_sym_LBRACK"}>>, <<96, {"sym_binary_operator"}>>,
      <<65, {"anon_sym_otherwise", "anon_sym_add", "anon_sym_islessthan", "anon_sym_isgreaterthan"}>>,
      <<63, {"ts_builtin_sym_end", "anon_sym_do_COLON", "anon_sym_declare_COLON",
          "anon_sym_note_COLON", "anon_sym_noteblock_COLON", "anon_sym_building_COLON",
          "anon_sym_floor_COLON", "anon_sym_step_COLON", "anon_sym_riser_COLON", "anon_sym_COMMA",
          "anon_sym_set", "anon_sym_to", "anon_sym_call", "anon_sym_storingresultin",
          "anon_sym_display", "anon_sym_input", "anon_sym_return", "sym_exit_statement",
          "anon_sym_if", "anon_sym_otherwiseif", "anon_sym_repeat", "anon_sym_times",
          "anon_sym_foreach", "anon_sym_while", "anon_sym_attempt_COLON", "anon_sym_remove",
          "anon_sym_from", "anon_sym_RBRACK", "anon_sym_PLUS", "anon_sym_DASH", "anon_sym_STAR",
          "anon_sym_SLASH", "anon_sym_isequalto", "anon_sym_equals", "anon_sym_isnotequalto",
          "anon_sym_islessthanorequalto", "anon_sym_isgreaterthanorequalto", "anon_sym_and",
          "anon_sym_or", "anon_sym_addedto", "anon_sym_contains", "anon_sym_startswith",
          "anon_sym_endswith", "anon_sym_isin", "anon_sym_RPAREN", "sym__newline"}>>
    >>,
  (* state 5, [191] *) <<
      <<51, {"anon_sym_LBRACK"}>>, <<96, {"sym_binary_operator"}>>,
      <<69, {"anon_sym_otherwise", "anon_sym_add", "anon_sym_islessthan", "anon_sym_isgreaterthan"}>>,
      <<67, {"ts_builtin_sym_end", "anon_sym_do_COLON", "anon_sym_declare_COLON",
          "anon_sym_note_COLON", "anon_sym_noteblock_COLON", "anon_sym_building_COLON",
          "anon_sym_floor_COLON", "anon_sym_step_COLON", "anon_sym_riser_COLON", "anon_sym_COMMA",
          "anon_sym_set", "anon_sym_to", "anon_sym_call", "anon_sym_storingresultin",
          "anon_sym_display", "anon_sym_input", "anon_sym_return", "sym_exit_statement",
          "anon_sym_if", "anon_sym_otherwiseif", "anon_sym_repeat", "anon_sym_times",
          "anon_sym_foreach", "anon_sym_while", "anon_sym_attempt_COLON", "anon_sym_remove",
          "anon_sym_from", "anon_sym_RBRACK", "anon_sym_PLUS", "anon_sym_DASH", "anon_sym_STAR",
          "anon_sym_SLASH", "anon_sym_isequalto", "anon_sym_equals", "anon_sym_isnotequalto",
          "anon_sym_islessthanorequalto", "anon_sym_isgreaterthanorequalto", "anon_sym_and",
          "anon_sym_or", "anon_sym_addedto", "anon_sym_contains", "anon_sym_startswith",
          "anon_sym_endswith", "anon_sym_isin", "anon_sym_RPAREN", "sym__newline"}>>
    >>,
  (* state 6, [252] *) <<
      <<51, {"anon_sym_LBRACK"}>>, <<71, {"anon_sym_COMMA"}>>,
      <<14, {"aux_sym_argument_list_repeat1"}>>, <<96, {"sym_binary_operator"}>>,
      <<49, {"anon_sym_otherwise", "anon_sym_add"}>>,
      <<55, {"anon_sym_islessthan", "anon_sym_isgreaterthan"}>>,
      <<53, {"anon_sym_PLUS", "anon_sym_DASH", "anon_sym_STAR", "anon_sym_SLASH",
          "anon_sym_isequalto", "anon_sym_equals", "anon_sym_isnotequalto",
          "anon_sym_islessthanorequalto", "anon_sym_isgreaterthanorequalto", "anon_sym_and",
          "anon_sym_or", "anon_sym_addedto", "anon_sym_contains", "anon_sym_startswith",
          "anon_sym_endswith", "anon_sym_isin"}>>,
      <<47, {"ts_builtin_sym_end", "anon_sym_do_COLON", "anon_sym_declare_COLON",
          "anon_sym_note_COLON", "anon_sym_noteblock_COLON", "anon_sym_building_COLON",
          "anon_sym_floor_COLON", "anon_sym_step_COLON", "anon_sym_riser_COLON", "anon_sym_set",
          "anon_sym_to", "anon_sym_call", "anon_sym_display", "anon_sym_input", "anon_sym_return",
          "sym_exit_statement", "anon_sym_if", "anon_sym_otherwiseif", "anon_sym_repeat",
          "anon_sym_times", "anon_sym_foreach", "anon_sym_while", "anon_sym_attempt_COLON",
          "anon_sym_remove", "anon_sym_from", "anon_sym_RBRACK", "anon_sym_RPAREN",
          "sym__newline"}>>
    >>,
  (* state 7, [321] *) <<
      <<75, {"anon_sym_COMMA"}>>, <<7, {"aux_sym_argument_list_repeat1"}>>,
      <<78, {"anon_sym_otherwise", "anon_sym_add", "anon_sym_islessthan", "anon_sym_isgreaterthan"}>>,
      <<73, {"ts_builtin_sym_end", "anon_sym_do_COLON", "anon_sym_declare_COLON",
          "anon_sym_note_COLON", "anon_sym_noteblock_COLON", "anon_sym_building_COLON",
          "anon_sym_floor_COLON", "anon_sym_step_COLON", "anon_sym_riser_COLON", "anon_sym_set",
          "anon_sym_to", "anon_sym_call", "anon_sym_storingresultin", "anon_sym_display",
          "anon_sym_input", "anon_sym_return", "sym_exit_statement", "anon_sym_if",
          "anon_sym_otherwiseif", "anon_sym_repeat", "anon_sym_times", "anon_sym_foreach",
          "anon_sym_while", "anon_sym_attempt_COLON", "anon_sym_remove", "anon_sym_from",
          "anon_sym_LBRACK", "anon_sym_RBRACK", "anon_sym_PLUS", "anon_sym_DASH", "anon_sym_STAR",
          "anon_sym_SLASH", "anon_sym_isequalto", "anon_sym_equals", "anon_sym_isnotequalto",
          "anon_sym_islessthanorequalto", "anon_sym_isgreaterthanorequalto", "anon_sym_and",
          "anon_sym_or", "anon_sym_addedto", "anon_sym_contains", "anon_sym_startswith",
          "anon_sym_endswith", "anon_sym_isin", "anon_sym_RPAREN", "sym__newline"}>>
    >>,
  (* state 8, [382] *) <<
      <<7, {"aux_sym_argument_list_repeat1"}>>,
      <<82, {"anon_sym_otherwise", "anon_sym_add", "anon_sym_islessthan", "anon_sym_isgreaterthan"}>>,
      <<80, {"ts_builtin_sym_end", "anon_sym_do_COLON", "anon_sym_declare_COLON",
          "anon_sym_note_COLON", "anon_sym_noteblock_COLON", "anon_sym_building_COLON",
          "anon_sym_floor_COLON", "anon_sym_step_COLON", "anon_sym_riser_COLON", "anon_sym_COMMA",
          "anon_sym_set", "anon_sym_to", "anon_sym_call", "anon_sym_storingresultin",
          "anon_sym_display", "anon_sym_input", "anon_sym_return", "sym_exit_statement",
          "anon_sym_if", "anon_sym_otherwiseif", "anon_sym_repeat", "anon_sym_times",
          "anon_sym_foreach", "anon_sym_while", "anon_sym_attempt_COLON", "anon_sym_remove",
          "anon_sym_from", "anon_sym_LBRACK", "anon_sym_RBRACK", "anon_sym_PLUS", "anon_sym_DASH",
          "anon_sym_STAR", "anon_sym_SLASH", "anon_sym_isequalto", "anon_sym_equals",
          "anon_sym_isnotequalto", "anon_sym_islessthanorequalto", "anon_sym_isgreaterthanorequalto",
          "anon_sym_and", "anon_sym_or", "anon_sym_addedto", "anon_sym_contains",
          "anon_sym_startswith", "anon_sym_endswith", "anon_sym_isin", "anon_sym_RPAREN",
          "sym__newline"}>>
    >>,
  (* state 9, [441] *) <<
      <<51, {"anon_sym_LBRACK"}>>, <<96, {"sym_binary_operator"}>>,
      <<55, {"anon_sym_islessthan", "anon_sym_isgreaterthan"}>>,
      <<78, {"anon_sym_otherwise", "anon_sym_add"}>>,
      <<53, {"anon_sym_PLUS", "anon_sym_DASH", "anon_sym_STAR", "anon_sym_SLASH",
          "anon_sym_isequalto", "anon_sym_equals", "anon_sym_isnotequalto",
          "anon_sym_islessthanorequalto", "anon_sym_isgreaterthanorequalto", "anon_sym_and",
          "anon_sym_or", "anon_sym_addedto", "anon_sym_contains", "anon_sym_startswith",
          "anon_sym_endswith", "anon_sym_isin"}>>,
      <<73, {"ts_builtin_sym_end", "anon_sym_do_COLON", "anon_sym_declare_COLON",
          "anon_sym_note_COLON", "anon_sym_noteblock_COLON", "anon_sym_building_COLON",
          "anon_sym_floor_COLON", "anon_sym_step_COLON", "anon_sym_riser_COLON", "anon_sym_COMMA",
          "anon_sym_set", "anon_sym_to", "anon_sym_call", "anon_sym_storingresultin",
          "anon_sym_display", "anon_sym_input", "anon_sym_return", "sym_exit_statement",
          "anon_sym_if", "anon_sym_otherwiseif", "anon_sym_repeat", "anon_sym_times",
          "anon_sym_foreach", "anon_sym_while", "anon_sym_attempt_COLON", "anon_sym_remove",
          "anon_sym_from", "anon_sym_RBRACK", "anon_sym_RPAREN", "sym__newline"}>>
    >>,
  (* state 10, [506] *) <<
      <<86, {"anon_sym_otherwise", "anon_sym_add", "anon_sym_islessthan", "anon_sym_isgreaterthan"}>>,
      <<84, {"ts_builtin_sym_end", "anon_sym_do_COLON", "anon_sym_declare_COLON",
          "anon_sym_note_COLON", "anon_sym_noteblock_COLON", "anon_sym_building_COLON",
          "anon_sym_floor_COLON", "anon_sym_step_COLON", "anon_sym_riser_COLON", "anon_sym_COMMA",
          "anon_sym_set", "anon_sym_to", "anon_sym_call", "anon_sym_storingresultin",
          "anon_sym_display", "anon_sym_input", "anon_sym_return", "sym_exit_statement",
          "anon_sym_if", "anon_sym_otherwiseif", "anon_sym_repeat", "anon_sym_times",
          "anon_sym_foreach", "anon_sym_while", "anon_sym_attempt_COLON", "anon_sym_remove",
          "anon_sym_from", "anon_sym_LBRACK", "anon_sym_RBRACK", "anon_sym_PLUS", "anon_sym_DASH",
          "anon_sym_STAR", "anon_sym_SLASH", "anon_sym_isequalto", "anon_sym_equals",
          "anon_sym_isnotequalto", "anon_sym_islessthanorequalto", "anon_sym_isgreaterthanorequalto",
          "anon_sym_and", "anon_sym_or", "anon_sym_addedto", "anon_sym_contains",
          "anon_sym_startswith", "anon_sym_endswith", "anon_sym_isin", "anon_sym_RPAREN",
          "sym__newline"}>>
    >>,
  (* state 11, [562] *) <<
      <<90, {"anon_sym_otherwise", "anon_sym_add", "anon_sym_islessthan", "anon_sym_isgreaterthan"}>>,
      <<88, {"ts_builtin_sym_end", "anon_sym_do_COLON", "anon_sym_declare_COLON",
          "anon_sym_note_COLON", "anon_sym_noteblock_COLON", "anon_sym_building_COLON",
          "anon_sym_floor_COLON", "anon_sym_step_COLON", "anon_sym_riser_COLON", "anon_sym_COMMA",
          "anon_sym_set", "anon_sym_to", "anon_sym_call", "anon_sym_storingresultin",
          "anon_sym_display", "anon_sym_input", "anon_sym_return", "sym_exit_statement",
          "anon_sym_if", "anon_sym_otherwiseif", "anon_sym_repeat", "anon_sym_times",
          "anon_sym_foreach", "anon_sym_while", "anon_sym_attempt_COLON", "anon_sym_remove",
          "anon_sym_from", "anon_sym_LBRACK", "anon_sym_RBRACK", "anon_sym_PLUS", "anon_sym_DASH",
          "anon_sym_STAR", "anon_sym_SLASH", "anon_sym_isequalto", "anon_sym_equals",
          "anon_sym_isnotequalto", "anon_sym_islessthanorequalto", "anon_sym_isgreaterthanorequalto",
          "anon_sym_and", "anon_sym_or", "anon_sym_addedto", "anon_sym_contains",
          "anon_sym_startswith", "anon_sym_endswith", "anon_sym_isin", "anon_sym_RPAREN",
          "sym__newline"}>>
    >>,
  (* state 12, [618] *) <<
      <<92, {"anon_sym_with"}>>, <<20, {"sym_with_clause"}>>,
      <<61, {"anon_sym_otherwise", "anon_sym_add", "anon_sym_islessthan", "anon_sym_isgreaterthan"}>>,
      <<57, {"ts_builtin_sym_end", "anon_sym_do_COLON", "anon_sym_declare_COLON",
          "anon_sym_note_COLON", "anon_sym_noteblock_COLON", "anon_sym_building_COLON",
          "anon_sym_floor_COLON", "anon_sym_step_COLON", "anon_sym_riser_COLON", "anon_sym_set",
          "anon_sym_to", "anon_sym_call", "anon_sym_display", "anon_sym_input", "anon_sym_return",
          "sym_exit_statement", "anon_sym_if", "anon_sym_otherwiseif", "anon_sym_repeat",
          "anon_sym_times", "anon_sym_foreach", "anon_sym_while", "anon_sym_attempt_COLON",
          "anon_sym_remove", "anon_sym_from", "anon_sym_LBRACK", "anon_sym_RBRACK", "anon_sym_PLUS",
          "anon_sym_DASH", "anon_sym_STAR", "anon_sym_SLASH", "anon_sym_isequalto",
          "anon_sym_equals", "anon_sym_isnotequalto", "anon_sym_islessthanorequalto",
          "anon_sym_isgreaterthanorequalto", "anon_sym_and", "anon_sym_or", "anon_sym_addedto",
          "anon_sym_contains", "anon_sym_startswith", "anon_sym_endswith", "anon_sym_isin",
          "anon_sym_RPAREN", "sym__newline"}>>
    >>,
  (* state 13, [678] *) <<
      <<96, {"anon_sym_otherwise", "anon_sym_add", "anon_sym_islessthan", "anon_sym_isgreaterthan"}>>,
      <<94, {"ts_builtin_sym_end", "anon_sym_do_COLON", "anon_sym_declare_COLON",
          "anon_sym_note_COLON", "anon_sym_noteblock_COLON", "anon_sym_building_COLON",
          "anon_sym_floor_COLON", "anon_sym_step_COLON", "anon_sym_riser_COLON", "anon_sym_COMMA",
          "anon_sym_set", "anon_sym_to", "anon_sym_call", "anon_sym_storingresultin",
          "anon_sym_display", "anon_sym_input", "anon_sym_return", "sym_exit_statement",
          "anon_sym_if", "anon_sym_otherwiseif", "anon_sym_repeat", "anon_sym_times",
          "anon_sym_foreach", "anon_sym_while", "anon_sym_attempt_COLON", "anon_sym_remove",
          "anon_sym_from", "anon_sym_LBRACK", "anon_sym_RBRACK", "anon_sym_PLUS", "anon_sym_DASH",
          "anon_sym_STAR", "anon_sym_SLASH", "anon_sym_isequalto", "anon_sym_equals",
          "anon_sym_isnotequalto", "anon_sym_islessthanorequalto", "anon_sym_isgreaterthanorequalto",
          "anon_sym_and", "anon_sym_or", "anon_sym_addedto", "anon_sym_contains",
          "anon_sym_startswith", "anon_sym_endswith", "anon_sym_isin", "anon_sym_RPAREN",
          "sym__newline"}>>
    >>,
  (* state 14, [734] *) <<
      <<71, {"anon_sym_COMMA"}>>, <<7, {"aux_sym_argument_list_repeat1"}>>,
      <<82, {"anon_sym_otherwise", "anon_sym_add", "anon_sym_islessthan", "anon_sym_isgreaterthan"}>>,
      <<80, {"ts_builtin_sym_end", "anon_sym_do_COLON", "anon_sym_declare_COLON",
          "anon_sym_note_COLON", "anon_sym_noteblock_COLON", "anon_sym_building_COLON",
          "anon_sym_floor_COLON", "anon_sym_step_COLON", "anon_sym_riser_COLON", "anon_sym_set",
          "anon_sym_to", "anon_sym_call", "anon_sym_display", "anon_sym_input", "anon_sym_return",
          "sym_exit_statement", "anon_sym_if", "anon_sym_otherwiseif", "anon_sym_repeat",
          "anon_sym_times", "anon_sym_foreach", "anon_sym_while", "anon_sym_attempt_COLON",
          "anon_sym_remove", "anon_sym_from", "anon_sym_LBRACK", "anon_sym_RBRACK", "anon_sym_PLUS",
          "anon_sym_DASH", "anon_sym_STAR", "anon_sym_SLASH", "anon_sym_isequalto",
          "anon_sym_equals", "anon_sym_isnotequalto", "anon_sym_islessthanorequalto",
          "anon_sym_isgreaterthanorequalto", "anon_sym_and", "anon_sym_or", "anon_sym_addedto",
          "anon_sym_contains", "anon_sym_startswith", "anon_sym_endswith", "anon_sym_isin",
          "anon_sym_RPAREN", "sym__newline"}>>
    >>,
  (* state 15, [794] *) <<
      <<100, {"anon_sym_otherwise", "anon_sym_add", "anon_sym_islessthan", "anon_sym_isgreaterthan"}>>,
      <<98, {"ts_builtin_sym_end", "anon_sym_do_COLON", "anon_sym_declare_COLON",
          "anon_sym_note_COLON", "anon_sym_noteblock_COLON", "anon_sym_building_COLON",
          "anon_sym_floor_COLON", "anon_sym_step_COLON", "anon_sym_riser_COLON", "anon_sym_COMMA",
          "anon_sym_set", "anon_sym_to", "anon_sym_call", "anon_sym_storingresultin",
          "anon_sym_display", "anon_sym_input", "anon_sym_return", "sym_exit_statement",
          "anon_sym_if", "anon_sym_otherwiseif", "anon_sym_repeat", "anon_sym_times",
          "anon_sym_foreach", "anon_sym_while", "anon_sym_attempt_COLON", "anon_sym_remove",
          "anon_sym_from", "anon_sym_LBRACK", "anon_sym_RBRACK", "anon_sym_PLUS", "anon_sym_DASH",
          "anon_sym_STAR", "anon_sym_SLASH", "anon_sym_isequalto", "anon_sym_equals",
          "anon_sym_isnotequalto", "anon_sym_islessthanorequalto", "anon_sym_isgreaterthanorequalto",
          "anon_sym_and", "anon_sym_or", "anon_sym_addedto", "anon_sym_contains",
          "anon_sym_startswith", "anon_sym_endswith", "anon_sym_isin", "anon_sym_RPAREN",
          "sym__newline"}>>
    >>,
  (* state 16, [850] *) <<
      <<104, {"anon_sym_otherwise", "anon_sym_add", "anon_sym_islessthan", "anon_sym_isgreaterthan"}>>,
      <<102, {"ts_builtin_sym_end", "anon_sym_do_COLON", "anon_sym_declare_COLON",
          "anon_sym_note_COLON", "anon_sym_noteblock_COLON", "anon_sym_building_COLON",
          "anon_sym_floor_COLON", "anon_sym_step_COLON", "anon_sym_riser_COLON", "anon_sym_COMMA",
          "anon_sym_set", "anon_sym_to", "anon_sym_call", "anon_sym_storingresultin",
          "anon_sym_display", "anon_sym_input", "anon_sym_return", "sym_exit_statement",
          "anon_sym_if", "anon_sym_otherwiseif", "anon_sym_repeat", "anon_sym_times",
          "anon_sym_foreach", "anon_sym_while", "anon_sym_attempt_COLON", "anon_sym_remove",
          "anon_sym_from", "anon_sym_LBRACK", "anon_sym_RBRACK", "anon_sym_PLUS", "anon_sym_DASH",
          "anon_sym_STAR", "anon_sym_SLASH", "anon_sym_isequalto", "anon_sym_equals",
          "anon_sym_isnotequalto", "anon_sym_islessthanorequalto", "anon_sym_isgreaterthanorequalto",
          "anon_sym_and", "anon_sym_or", "anon_sym_addedto", "anon_sym_contains",
          "anon_sym_startswith", "anon_sym_endswith", "anon_sym_isin", "anon_sym_RPAREN",
          "sym__newline"}>>
    >>,
  (* state 17, [906] *) <<
      <<108, {"anon_sym_otherwise", "anon_sym_add", "anon_sym_islessthan", "anon_sym_isgreaterthan"}>>,
      <<106, {"ts_builtin_sym_end", "anon_sym_do_COLON", "anon_sym_declare_COLON",
          "anon_sym_note_COLON", "anon_sym_noteblock_COLON", "anon_sym_building_COLON",
          "anon_sym_floor_COLON", "anon_sym_step_COLON", "anon_sym_riser_COLON", "anon_sym_COMMA",
          "anon_sym_set", "anon_sym_to", "anon_sym_call", "anon_sym_storingresultin",
          "anon_sym_display", "anon_sym_input", "anon_sym_return", "sym_exit_statement",
          "anon_sym_if", "anon_sym_otherwiseif", "anon_sym_repeat", "anon_sym_times",
          "anon_sym_foreach", "anon_sym_while", "anon_sym_attempt_COLON", "anon_sym_remove",
          "anon_sym_from", "anon_sym_LBRACK", "anon_sym_RBRACK", "anon_sym_PLUS", "anon_sym_DASH",
          "anon_sym_STAR", "anon_sym_SLASH", "anon_sym_isequalto", "anon_sym_equals",
          "anon_sym_isnotequalto", "anon_sym_islessthanorequalto", "anon_sym_isgreaterthanorequalto",
          "anon_sym_and", "anon_sym_or", "anon_sym_addedto", "anon_sym_contains",
          "anon_sym_startswith", "anon_sym_endswith", "anon_sym_isin", "anon_sym_RPAREN",
          "sym__newline"}>>
    >>,
  (* state 18, [962] *) <<
      <<112, {"anon_sym_otherwise", "anon_sym_add", "anon_sym_islessthan", "anon_sym_isgreaterthan"}>>,
      <<110, {"ts_builtin_sym_end", "anon_sym_do_COLON", "anon_sym_declare_COLON",
          "anon_sym_note_COLON", "anon_sym_noteblock_COLON", "anon_sym_building_COLON",
          "anon_sym_floor_COLON", "anon_sym_step_COLON", "anon_sym_riser_COLON", "anon_sym_COMMA",
          "anon_sym_set", "anon_sym_to", "anon_sym_call", "anon_sym_storingresultin",
          "anon_sym_display", "anon_sym_input", "anon_sym_return", "sym_exit_statement",
          "anon_sym_if", "anon_sym_otherwiseif", "anon_sym_repeat", "anon_sym_times",
          "anon_sym_foreach", "anon_sym_while", "anon_sym_attempt_COLON", "anon_sym_remove",
          "anon_sym_from", "anon_sym_LBRACK", "anon_sym_RBRACK", "anon_sym_PLUS", "anon_sym_DASH",
          "anon_sym_STAR", "anon_sym_SLASH", "anon_sym_isequalto", "anon_sym_equals",
          "anon_sym_isnotequalto", "anon_sym_islessthanorequalto", "anon_sym_isgreaterthanorequalto",
          "anon_sym_and", "anon_sym_or", "anon_sym_addedto", "anon_sym_contains",
          "anon_sym_startswith", "anon_sym_endswith", "anon_sym_isin", "anon_sym_RPAREN",
          "sym__newline"}>>
    >>,
  (* state 19, [1018] *) <<
      <<116, {"anon_sym_otherwise", "anon_sym_add", "anon_sym_islessthan", "anon_sym_isgreaterthan"}>>,
      <<114, {"ts_builtin_sym_end", "anon_sym_do_COLON", "anon_sym_declare_COLON",
          "anon_sym_note_COLON", "anon_sym_noteblock_COLON", "anon_sym_building_COLON",
          "anon_sym_floor_COLON", "anon_sym_step_COLON", "anon_sym_riser_COLON", "anon_sym_COMMA",
          "anon_sym_set", "anon_sym_to", "anon_sym_call", "anon_sym_storingresultin",
          "anon_sym_display", "anon_sym_input", "anon_sym_return", "sym_exit_statement",
          "anon_sym_if", "anon_sym_otherwiseif", "anon_sym_repeat", "anon_sym_times",
          "anon_sym_foreach", "anon_sym_while", "anon_sym_attempt_COLON", "anon_sym_remove",
          "anon_sym_from", "anon_sym_LBRACK", "anon_sym_RBRACK", "anon_sym_PLUS", "anon_sym_DASH",
          "anon_sym_STAR", "anon_sym_SLASH", "anon_sym_isequalto", "anon_sym_equals",
          "anon_sym_isnotequalto", "anon_sym_islessthanorequalto", "anon_sym_isgreaterthanorequalto",
          "anon_sym_and", "anon_sym_or", "anon_sym_addedto", "anon_sym_contains",
          "anon_sym_startswith", "anon_sym_endswith", "anon_sym_isin", "anon_sym_RPAREN",
          "sym__newline"}>>
    >>,
  (* state 20, [1074] *) <<
      <<120, {"anon_sym_otherwise", "anon_sym_add", "anon_sym_islessthan", "anon_sym_isgreaterthan"}>>,
      <<118, {"ts_builtin_sym_end", "anon_sym_do_COLON", "anon_sym_declare_COLON",
          "anon_sym_note_COLON", "anon_sym_noteblock_COLON", "anon_sym_building_COLON",
          "anon_sym_floor_COLON", "anon_sym_step_COLON", "anon_sym_riser_COLON", "anon_sym_COMMA",
          "anon_sym_set", "anon_sym_to", "anon_sym_call", "anon_sym_storingresultin",
          "anon_sym_display", "anon_sym_input", "anon_sym_return", "sym_exit_statement",
          "anon_sym_if", "anon_sym_otherwiseif", "anon_sym_repeat", "anon_sym_times",
          "anon_sym_foreach", "anon_sym_while", "anon_sym_attempt_COLON", "anon_sym_remove",
          "anon_sym_from", "anon_sym_LBRACK", "anon_sym_RBRACK", "anon_sym_PLUS", "anon_sym_DASH",
          "anon_sym_STAR", "anon_sym_SLASH", "anon_sym_isequalto", "anon_sym_equals",
          "anon_sym_isnotequalto", "anon_sym_islessthanorequalto", "anon_sym_isgreaterthanorequalto",
          "anon_sym_and", "anon_sym_or", "anon_sym_addedto", "anon_sym_contains",
          "anon_sym_startswith", "anon_sym_endswith", "anon_sym_isin", "anon_sym_RPAREN",
          "sym__newline"}>>
    >>,
  (* state 21, [1130] *) <<
      <<51, {"anon_sym_LBRACK"}>>, <<92, {"sym_binary_operator"}>>,
      <<65, {"anon_sym_otherwise", "anon_sym_add", "anon_sym_islessthan", "anon_sym_isgreaterthan"}>>,
      <<63, {"ts_builtin_sym_end", "anon_sym_do_COLON", "anon_sym_declare_COLON",
          "anon_sym_note_COLON", "anon_sym_noteblock_COLON", "anon_sym_building_COLON",
          "anon_sym_floor_COLON", "anon_sym_step_COLON", "anon_sym_riser_COLON", "anon_sym_set",
          "anon_sym_to", "anon_sym_call", "anon_sym_display", "anon_sym_input", "anon_sym_return",
          "sym_exit_statement", "anon_sym_if", "anon_sym_otherwiseif", "anon_sym_repeat",
          "anon_sym_times", "anon_sym_foreach", "anon_sym_while", "anon_sym_attempt_COLON",
          "anon_sym_remove", "anon_sym_from", "anon_sym_RBRACK", "anon_sym_PLUS", "anon_sym_DASH",
          "anon_sym_STAR", "anon_sym_SLASH", "anon_sym_isequalto", "anon_sym_equals",
          "anon_sym_isnotequalto", "anon_sym_islessthanorequalto", "anon_sym_isgreaterthanorequalto",
          "anon_sym_and", "anon_sym_or", "anon_sym_addedto", "anon_sym_contains",
          "anon_sym_startswith", "anon_sym_endswith", "anon_sym_isin", "anon_sym_RPAREN",
          "sym__newline"}>>
    >>,
  (* state 22, [1189] *) <<
      <<51, {"anon_sym_LBRACK"}>>, <<92, {"sym_binary_operator"}>>,
      <<69, {"anon_sym_otherwise", "anon_sym_add", "anon_sym_islessthan", "anon_sym_isgreaterthan"}>>,
      <<67, {"ts_builtin_sym_end", "anon_sym_do_COLON", "anon_sym_declare_COLON",
          "anon_sym_note_COLON", "anon_sym_noteblock_COLON", "anon_sym_building_COLON",
          "anon_sym_floor_COLON", "anon_sym_step_COLON", "anon_sym_riser_COLON", "anon_sym_set",
          "anon_sym_to", "anon_sym_call", "anon_sym_display", "anon_sym_input", "anon_sym_return",
          "sym_exit_statement", "anon_sym_if", "anon_sym_otherwiseif", "anon_sym_repeat",
          "anon_sym_times", "anon_sym_foreach", "anon_sym_while", "anon_sym_attempt_COLON",
          "anon_sym_remove", "anon_sym_from", "anon_sym_RBRACK", "anon_sym_PLUS", "anon_sym_DASH",
          "anon_sym_STAR", "anon_sym_SLASH", "anon_sym_isequalto", "anon_sym_equals",
          "anon_sym_isnotequalto", "anon_sym_islessthanorequalto", "anon_sym_isgreaterthanorequalto",
          "anon_sym_and", "anon_sym_or", "anon_sym_addedto", "anon_sym_contains",
          "anon_sym_startswith", "anon_sym_endswith", "anon_sym_isin", "anon_sym_RPAREN",
          "sym__newline"}>>
    >>,
  (* state 23, [1248] *) <<
      <<51, {"anon_sym_LBRACK"}>>, <<124, {"anon_sym_otherwiseif"}>>,
      <<126, {"anon_sym_otherwise"}>>, <<128, {"anon_sym_add"}>>, <<75, {"sym_otherwise_clause"}>>,
      <<92, {"sym_binary_operator"}>>, <<55, {"anon_sym_islessthan", "anon_sym_isgreaterthan"}>>,
      <<41, {"sym_otherwise_if_clause", "aux_sym_if_statement_repeat1"}>>,
      <<53, {"anon_sym_PLUS", "anon_sym_DASH", "anon_sym_STAR", "anon_sym_SLASH",
          "anon_sym_isequalto", "anon_sym_equals", "anon_sym_isnotequalto",
          "anon_sym_islessthanorequalto", "anon_sym_isgreaterthanorequalto", "anon_sym_and",
          "anon_sym_or", "anon_sym_addedto", "anon_sym_contains", "anon_sym_startswith",
          "anon_sym_endswith", "anon_sym_isin"}>>,
      <<122, {"ts_builtin_sym_end", "anon_sym_do_COLON", "anon_sym_declare_COLON",
          "anon_sym_note_COLON", "anon_sym_noteblock_COLON", "anon_sym_building_COLON",
          "anon_sym_floor_COLON", "anon_sym_step_COLON", "anon_sym_riser_COLON", "anon_sym_set",
          "anon_sym_call", "anon_sym_display", "anon_sym_input", "anon_sym_return",
          "sym_exit_statement", "anon_sym_if", "anon_sym_repeat", "anon_sym_foreach",
          "anon_sym_while", "anon_sym_attempt_COLON", "anon_sym_remove", "sym__newline"}>>
    >>,
  (* state 24, [1317] *) <<
      <<49, {"anon_sym_add"}>>, <<51, {"anon_sym_LBRACK"}>>, <<71, {"anon_sym_COMMA"}>>,
      <<44, {"aux_sym_argument_list_repeat1"}>>, <<96, {"sym_binary_operator"}>>,
      <<55, {"anon_sym_islessthan", "anon_sym_isgreaterthan"}>>,
      <<53, {"anon_sym_PLUS", "anon_sym_DASH", "anon_sym_STAR", "anon_sym_SLASH",
          "anon_sym_isequalto", "anon_sym_equals", "anon_sym_isnotequalto",
          "anon_sym_islessthanorequalto", "anon_sym_isgreaterthanorequalto", "anon_sym_and",
          "anon_sym_or", "anon_sym_addedto", "anon_sym_contains", "anon_sym_startswith",
          "anon_sym_endswith", "anon_sym_isin"}>>,
      <<47, {"ts_builtin_sym_end", "anon_sym_do_COLON", "anon_sym_declare_COLON",
          "anon_sym_note_COLON", "anon_sym_noteblock_COLON", "anon_sym_building_COLON",
          "anon_sym_floor_COLON", "anon_sym_step_COLON", "anon_sym_riser_COLON", "anon_sym_set",
          "anon_sym_call", "anon_sym_storingresultin", "anon_sym_display", "anon_sym_input",
          "anon_sym_return", "sym_exit_statement", "anon_sym_if", "anon_sym_repeat",
          "anon_sym_foreach", "anon_sym_while", "anon_sym_attempt_COLON", "anon_sym_remove",
          "anon_sym_RBRACK", "sym__newline"}>>
    >>,
  (* state 25, [1381] *) <<
      <<130, {"ts_builtin_sym_end"}>>, <<132, {"anon_sym_do_COLON"}>>,
      <<135, {"anon_sym_declare_COLON"}>>, <<138, {"anon_sym_note_COLON"}>>,
      <<141, {"anon_sym_noteblock_COLON"}>>, <<144, {"anon_sym_building_COLON"}>>,
      <<147, {"anon_sym_floor_COLON"}>>, <<150, {"anon_sym_step_COLON"}>>,
      <<153, {"anon_sym_riser_COLON"}>>, <<156, {"anon_sym_set"}>>, <<159, {"anon_sym_call"}>>,
      <<162, {"anon_sym_display"}>>, <<165, {"anon_sym_input"}>>, <<168, {"anon_sym_return"}>>,
      <<174, {"anon_sym_if"}>>, <<177, {"anon_sym_repeat"}>>, <<180, {"anon_sym_foreach"}>>,
      <<183, {"anon_sym_while"}>>, <<186, {"anon_sym_attempt_COLON"}>>, <<189, {"anon_sym_add"}>>,
      <<192, {"anon_sym_remove"}>>, <<171, {"sym_exit_statement", "sym__newline"}>>,
      <<67, {"sym_building_def", "sym_floor_def", "sym_step_def", "sym_riser_def"}>>,
      <<25, {"sym__statement", "sym_section_marker", "sym_comment", "sym_block_comment",
          "sym_structure_definition", "sym_declaration", "sym_assignment", "sym_call_statement",
          "sym_display_statement", "sym_input_statement", "sym_return_statement", "sym_if_statement",
          "sym_repeat_statement", "sym_for_each_statement", "sym_while_statement",
          "sym_attempt_statement", "sym_add_statement", "sym_remove_statement",
          "aux_sym_source_file_repeat1"}>>
    >>,
  (* state 26, [1476] *) <<
      <<5, {"anon_sym_do_COLON"}>>, <<7, {"anon_sym_declare_COLON"}>>,
      <<9, {"anon_sym_note_COLON"}>>, <<11, {"anon_sym_noteblock_COLON"}>>,
      <<13, {"anon_sym_building_COLON"}>>, <<15, {"anon_sym_floor_COLON"}>>,
      <<17, {"anon_sym_step_COLON"}>>, <<19, {"anon_sym_riser_COLON"}>>, <<21, {"anon_sym_set"}>>,
      <<23, {"anon_sym_call"}>>, <<25, {"anon_sym_display"}>>, <<27, {"anon_sym_input"}>>,
      <<29, {"anon_sym_return"}>>, <<33, {"anon_sym_if"}>>, <<35, {"anon_sym_repeat"}>>,
      <<37, {"anon_sym_foreach"}>>, <<39, {"anon_sym_while"}>>, <<41, {"anon_sym_attempt_COLON"}>>,
      <<43, {"anon_sym_add"}>>, <<45, {"anon_sym_remove"}>>, <<195, {"ts_builtin_sym_end"}>>,
      <<197, {"sym_exit_statement", "sym__newline"}>>,
      <<67, {"sym_building_def", "sym_floor_def", "sym_step_def", "sym_riser_def"}>>,
      <<25, {"sym__statement", "sym_section_marker", "sym_comment", "sym_block_comment",
          "sym_structure_definition", "sym_declaration", "sym_assignment", "sym_call_statement",
          "sym_display_statement", "sym_input_statement", "sym_return_statement", "sym_if_statement",
          "sym_repeat_statement", "sym_for_each_statement", "sym_while_statement",
          "sym_attempt_statement", "sym_add_statement", "sym_remove_statement",
          "aux_sym_source_file_repeat1"}>>
    >>,
  (* state 27, [1571] *) <<
      <<51, {"anon_sym_LBRACK"}>>, <<92, {"sym_binary_operator"}>>,
      <<55, {"anon_sym_islessthan", "anon_sym_isgreaterthan"}>>,
      <<201, {"anon_sym_otherwise", "anon_sym_add"}>>,
      <<53, {"anon_sym_PLUS", "anon_sym_DASH", "anon_sym_STAR", "anon_sym_SLASH",
          "anon_sym_isequalto", "anon_sym_equals", "anon_sym_isnotequalto",
          "anon_sym_islessthanorequalto", "anon_sym_isgreaterthanorequalto", "anon_sym_and",
          "anon_sym_or", "anon_sym_addedto", "anon_sym_contains", "anon_sym_startswith",
          "anon_sym_endswith", "anon_sym_isin"}>>,
      <<199, {"ts_builtin_sym_end", "anon_sym_do_COLON", "anon_sym_declare_COLON",
          "anon_sym_note_COLON", "anon_sym_noteblock_COLON", "anon_sym_building_COLON",
          "anon_sym_floor_COLON", "anon_sym_step_COLON", "anon_sym_riser_COLON", "anon_sym_set",
          "anon_sym_call", "anon_sym_display", "anon_sym_input", "anon_sym_return",
          "sym_exit_statement", "anon_sym_if", "anon_sym_otherwiseif", "anon_sym_repeat",
          "anon_sym_foreach", "anon_sym_while", "anon_sym_attempt_COLON", "anon_sym_remove",
          "sym__newline"}>>
    >>,
  (* state 28, [1629] *) <<
      <<51, {"anon_sym_LBRACK"}>>, <<205, {"anon_sym_add"}>>, <<92, {"sym_binary_operator"}>>,
      <<55, {"anon_sym_islessthan", "anon_sym_isgreaterthan"}>>,
      <<53, {"anon_sym_PLUS", "anon_sym_DASH", "anon_sym_STAR", "anon_sym_SLASH",
          "anon_sym_isequalto", "anon_sym_equals", "anon_sym_isnotequalto",
          "anon_sym_islessthanorequalto", "anon_sym_isgreaterthanorequalto", "anon_sym_and",
          "anon_sym_or", "anon_sym_addedto", "anon_sym_contains", "anon_sym_startswith",
          "anon_sym_endswith", "anon_sym_isin"}>>,
      <<203, {"ts_builtin_sym_end", "anon_sym_do_COLON", "anon_sym_declare_COLON",
          "anon_sym_note_COLON", "anon_sym_noteblock_COLON", "anon_sym_building_COLON",
          "anon_sym_floor_COLON", "anon_sym_step_COLON", "anon_sym_riser_COLON", "anon_sym_set",
          "anon_sym_call", "anon_sym_display", "anon_sym_input", "anon_sym_return",
          "sym_exit_statement", "anon_sym_if", "anon_sym_repeat", "anon_sym_foreach",
          "anon_sym_while", "anon_sym_attempt_COLON", "anon_sym_remove", "sym__newline"}>>
    >>,
  (* state 29, [1685] *) <<
      <<51, {"anon_sym_LBRACK"}>>, <<209, {"anon_sym_add"}>>, <<92, {"sym_binary_operator"}>>,
      <<55, {"anon_sym_islessthan", "anon_sym_isgreaterthan"}>>,
      <<53, {"anon_sym_PLUS", "anon_sym_DASH", "anon_sym_STAR", "anon_sym_SLASH",
          "anon_sym_isequalto", "anon_sym_equals", "anon_sym_isnotequalto",
          "anon_sym_islessthanorequalto", "anon_sym_isgreaterthanorequalto", "anon_sym_and",
          "anon_sym_or", "anon_sym_addedto", "anon_sym_contains", "anon_sym_startswith",
          "anon_sym_endswith", "anon_sym_isin"}>>,
      <<207, {"ts_builtin_sym_end", "anon_sym_do_COLON", "anon_sym_declare_COLON",
          "anon_sym_note_COLON", "anon_sym_noteblock_COLON", "anon_sym_building_COLON",
          "anon_sym_floor_COLON", "anon_sym_step_COLON", "anon_sym_riser_COLON", "anon_sym_set",
          "anon_sym_call", "anon_sym_display", "anon_sym_input", "anon_sym_return",
          "sym_exit_statement", "anon_sym_if", "anon_sym_repeat", "anon_sym_foreach",
          "anon_sym_while", "anon_sym_attempt_COLON", "anon_sym_remove", "sym__newline"}>>
    >>,
  (* state 30, [1741] *) <<
      <<51, {"anon_sym_LBRACK"}>>, <<213, {"anon_sym_add"}>>, <<92, {"sym_binary_operator"}>>,
      <<55, {"anon_sym_islessthan", "anon_sym_isgreaterthan"}>>,
      <<53, {"anon_sym_PLUS", "anon_sym_DASH", "anon_sym_STAR", "anon_sym_SLASH",
          "anon_sym_isequalto", "anon_sym_equals", "anon_sym_isnotequalto",
          "anon_sym_islessthanorequalto", "anon_sym_isgreaterthanorequalto", "anon_sym_and",
          "anon_sym_or", "anon_sym_addedto", "anon_sym_contains", "anon_sym_startswith",
          "anon_sym_endswith", "anon_sym_isin"}>>,
      <<211, {"ts_builtin_sym_end", "anon_sym_do_COLON", "anon_sym_declare_COLON",
          "anon_sym_note_COLON", "anon_sym_noteblock_COLON", "anon_sym_building_COLON",
          "anon_sym_floor_COLON", "anon_sym_step_COLON", "anon_sym_riser_COLON", "anon_sym_set",
          "anon_sym_call", "anon_sym_display", "anon_sym_input", "anon_sym_return",
          "sym_exit_statement", "anon_sym_if", "anon_sym_repeat", "anon_sym_foreach",
          "anon_sym_while", "anon_sym_attempt_COLON", "anon_sym_remove", "sym__newline"}>>
    >>,
  (* state 31, [1797] *) <<
      <<51, {"anon_sym_LBRACK"}>>, <<217, {"anon_sym_add"}>>, <<92, {"sym_binary_operator"}>>,
      <<55, {"anon_sym_islessthan", "anon_sym_isgreaterthan"}>>,
      <<53, {"anon_sym_PLUS", "anon_sym_DASH", "anon_sym_STAR", "anon_sym_SLASH",
          "anon_sym_isequalto", "anon_sym_equals", "anon_sym_isnotequalto",
          "anon_sym_islessthanorequalto", "anon_sym_isgreaterthanorequalto", "anon_sym_and",
          "anon_sym_or", "anon_sym_addedto", "anon_sym_contains", "anon_sym_startswith",
          "anon_sym_endswith", "anon_sym_isin"}>>,
      <<215, {"ts_builtin_sym_end", "anon_sym_do_COLON", "anon_sym_declare_COLON",
          "anon_sym_note_COLON", "anon_sym_noteblock_COLON", "anon_sym_building_COLON",
          "anon_sym_floor_COLON", "anon_sym_step_COLON", "anon_sym_riser_COLON", "anon_sym_set",
          "anon_sym_call", "anon_sym_display", "anon_sym_input", "anon_sym_return",
          "sym_exit_statement", "anon_sym_if", "anon_sym_repeat", "anon_sym_foreach",
          "anon_sym_while", "anon_sym_attempt_COLON", "anon_sym_remove", "sym__newline"}>>
    >>,
  (* state 32, [1853] *) <<
      <<225, {"anon_sym_call"}>>, <<227, {"sym_number"}>>, <<229, {"anon_sym_DQUOTE"}>>,
      <<233, {"anon_sym_LBRACK"}>>, <<235, {"anon_sym_not"}>>, <<237, {"anon_sym_lengthof"}>>,
      <<239, {"anon_sym_LPAREN"}>>, <<102, {"sym_unary_operator"}>>,
      <<221, {"sym_nothing", "sym_identifier"}>>, <<231, {"anon_sym_true", "anon_sym_false"}>>,
      <<30, {"sym__expression", "sym_string", "sym_boolean", "sym_list_literal",
          "sym_binary_expression", "sym_unary_expression", "sym_call_expression",
          "sym_index_expression", "sym_parenthesized_expression"}>>,
      <<223, {"anon_sym_set", "anon_sym_display", "anon_sym_input", "anon_sym_return",
          "sym_exit_statement", "anon_sym_if", "anon_sym_repeat", "anon_sym_while", "anon_sym_add",
          "anon_sym_remove"}>>,
      <<219, {"ts_builtin_sym_end", "anon_sym_do_COLON", "anon_sym_declare_COLON",
          "anon_sym_note_COLON", "anon_sym_noteblock_COLON", "anon_sym_building_COLON",
          "anon_sym_floor_COLON", "anon_sym_step_COLON", "anon_sym_riser_COLON", "anon_sym_foreach",
          "anon_sym_attempt_COLON", "sym__newline"}>>
    >>,
  (* state 33, [1923] *) <<
      <<51, {"anon_sym_LBRACK"}>>, <<243, {"anon_sym_add"}>>, <<92, {"sym_binary_operator"}>>,
      <<55, {"anon_sym_islessthan", "anon_sym_isgreaterthan"}>>,
      <<53, {"anon_sym_PLUS", "anon_sym_DASH", "anon_sym_STAR", "anon_sym_SLASH",
          "anon_sym_isequalto", "anon_sym_equals", "anon_sym_isnotequalto",
          "anon_sym_islessthanorequalto", "anon_sym_isgreaterthanorequalto", "anon_sym_and",
          "anon_sym_or", "anon_sym_addedto", "anon_sym_contains", "anon_sym_startswith",
          "anon_sym_endswith", "anon_sym_isin"}>>,
      <<241, {"ts_builtin_sym_end", "anon_sym_do_COLON", "anon_sym_declare_COLON",
          "anon_sym_note_COLON", "anon_sym_noteblock_COLON", "anon_sym_building_COLON",
          "anon_sym_floor_COLON", "anon_sym_step_COLON", "anon_sym_riser_COLON", "anon_sym_set",
          "anon_sym_call", "anon_sym_display", "anon_sym_input", "anon_sym_return",
          "sym_exit_statement", "anon_sym_if", "anon_sym_repeat", "anon_sym_foreach",
          "anon_sym_while", "anon_sym_attempt_COLON", "anon_sym_remove", "sym__newline"}>>
    >>,
  (* state 34, [1979] *) <<
      <<51, {"anon_sym_LBRACK"}>>, <<247, {"anon_sym_add"}>>, <<92, {"sym_binary_operator"}>>,
      <<55, {"anon_sym_islessthan", "anon_sym_isgreaterthan"}>>,
      <<53, {"anon_sym_PLUS", "anon_sym_DASH", "anon_sym_STAR", "anon_sym_SLASH",
          "anon_sym_isequalto", "anon_sym_equals", "anon_sym_isnotequalto",
          "anon_sym_islessthanorequalto", "anon_sym_isgreaterthanorequalto", "anon_sym_and",
          "anon_sym_or", "anon_sym_addedto", "anon_sym_contains", "anon_sym_startswith",
          "anon_sym_endswith", "anon_sym_isin"}>>,
      <<245, {"ts_builtin_sym_end", "anon_sym_do_COLON", "anon_sym_declare_COLON",
          "anon_sym_note_COLON", "anon_sym_noteblock_COLON", "anon_sym_building_COLON",
          "anon_sym_floor_COLON", "anon_sym_step_COLON", "anon_sym_riser_COLON", "anon_sym_set",
          "anon_sym_call", "anon_sym_display", "anon_sym_input", "anon_sym_return",
          "sym_exit_statement", "anon_sym_if", "anon_sym_repeat", "anon_sym_foreach",
          "anon_sym_while", "anon_sym_attempt_COLON", "anon_sym_remove", "sym__newline"}>>
    >>,
  (* state 35, [2035] *) <<
      <<51, {"anon_sym_LBRACK"}>>, <<251, {"anon_sym_add"}>>, <<92, {"sym_binary_operator"}>>,
      <<55, {"anon_sym_islessthan", "anon_sym_isgreaterthan"}>>,
      <<53, {"anon_sym_PLUS", "anon_sym_DASH", "anon_sym_STAR", "anon_sym_SLASH",
          "anon_sym_isequalto", "anon_sym_equals", "anon_sym_isnotequalto",
          "anon_sym_islessthanorequalto", "anon_sym_isgreaterthanorequalto", "anon_sym_and",
          "anon_sym_or", "anon_sym_addedto", "anon_sym_contains", "anon_sym_startswith",
          "anon_sym_endswith", "anon_sym_isin"}>>,
      <<249, {"ts_builtin_sym_end", "anon_sym_do_COLON", "anon_sym_declare_COLON",
          "anon_sym_note_COLON", "anon_sym_noteblock_COLON", "anon_sym_building_COLON",
          "anon_sym_floor_COLON", "anon_sym_step_COLON", "anon_sym_riser_COLON", "anon_sym_set",
          "anon_sym_call", "anon_sym_display", "anon_sym_input", "anon_sym_return",
          "sym_exit_statement", "anon_sym_if", "anon_sym_repeat", "anon_sym_foreach",
          "anon_sym_while", "anon_sym_attempt_COLON", "anon_sym_remove", "sym__newline"}>>
    >>,
  (* state 36, [2091] *) <<
      <<255, {"anon_sym_belongsto_COLON"}>>, <<257, {"anon_sym_expects_COLON"}>>,
      <<259, {"anon_sym_returns_COLON"}>>, <<261, {"anon_sym_return"}>>,
      <<68, {"sym_step_clauses"}>>,
      <<39, {"sym_belongs_clause", "sym_expects_clause", "sym_returns_clause",
          "aux_sym_step_clauses_repeat1"}>>,
      <<253, {"ts_builtin_sym_end", "anon_sym_do_COLON", "anon_sym_declare_COLON",
          "anon_sym_note_COLON", "anon_sym_noteblock_COLON", "anon_sym_building_COLON",
          "anon_sym_floor_COLON", "anon_sym_step_COLON", "anon_sym_riser_COLON", "anon_sym_set",
          "anon_sym_call", "anon_sym_display", "anon_sym_input", "sym_exit_statement", "anon_sym_if",
          "anon_sym_repeat", "anon_sym_foreach", "anon_sym_while", "anon_sym_attempt_COLON",
          "anon_sym_add", "anon_sym_remove", "sym__newline"}>>
    >>,
  (* state 37, [2137] *) <<
      <<255, {"anon_sym_belongsto_COLON"}>>, <<257, {"anon_sym_expects_COLON"}>>,
      <<259, {"anon_sym_returns_COLON"}>>, <<265, {"anon_sym_return"}>>,
      <<69, {"sym_step_clauses"}>>,
      <<39, {"sym_belongs_clause", "sym_expects_clause", "sym_returns_clause",
          "aux_sym_step_clauses_repeat1"}>>,
      <<263, {"ts_builtin_sym_end", "anon_sym_do_COLON", "anon_sym_declare_COLON",
          "anon_sym_note_COLON", "anon_sym_noteblock_COLON", "anon_sym_building_COLON",
          "anon_sym_floor_COLON", "anon_sym_step_COLON", "anon_sym_riser_COLON", "anon_sym_set",
          "anon_sym_call", "anon_sym_display", "anon_sym_input", "sym_exit_statement", "anon_sym_if",
          "anon_sym_repeat", "anon_sym_foreach", "anon_sym_while", "anon_sym_attempt_COLON",
          "anon_sym_add", "anon_sym_remove", "sym__newline"}>>
    >>,
  (* state 38, [2183] *) <<
      <<269, {"anon_sym_belongsto_COLON"}>>, <<272, {"anon_sym_expects_COLON"}>>,
      <<275, {"anon_sym_returns_COLON"}>>, <<278, {"anon_sym_return"}>>,
      <<38, {"sym_belongs_clause", "sym_expects_clause", "sym_returns_clause",
          "aux_sym_step_clauses_repeat1"}>>,
      <<267, {"ts_builtin_sym_end", "anon_sym_do_COLON", "anon_sym_declare_COLON",
          "anon_sym_note_COLON", "anon_sym_noteblock_COLON", "anon_sym_building_COLON",
          "anon_sym_floor_COLON", "anon_sym_step_COLON", "anon_sym_riser_COLON", "anon_sym_set",
          "anon_sym_call", "anon_sym_display", "anon_sym_input", "sym_exit_statement", "anon_sym_if",
          "anon_sym_repeat", "anon_sym_foreach", "anon_sym_while", "anon_sym_attempt_COLON",
          "anon_sym_add", "anon_sym_remove", "sym__newline"}>>
    >>,
  (* state 39, [2226] *) <<
      <<255, {"anon_sym_belongsto_COLON"}>>, <<257, {"anon_sym_expects_COLON"}>>,
      <<259, {"anon_sym_returns_COLON"}>>, <<282, {"anon_sym_return"}>>,
      <<38, {"sym_belongs_clause", "sym_expects_clause", "sym_returns_clause",
          "aux_sym_step_clauses_repeat1"}>>,
      <<280, {"ts_builtin_sym_end", "anon_sym_do_COLON", "anon_sym_declare_COLON",
          "anon_sym_note_COLON", "anon_sym_noteblock_COLON", "anon_sym_building_COLON",
          "anon_sym_floor_COLON", "anon_sym_step_COLON", "anon_sym_riser_COLON", "anon_sym_set",
          "anon_sym_call", "anon_sym_display", "anon_sym_input", "sym_exit_statement", "anon_sym_if",
          "anon_sym_repeat", "anon_sym_foreach", "anon_sym_while", "anon_sym_attempt_COLON",
          "anon_sym_add", "anon_sym_remove", "sym__newline"}>>
    >>,
  (* state 40, [2269] *) <<
      <<286, {"anon_sym_COMMA"}>>, <<288, {"anon_sym_return"}>>,
      <<43, {"aux_sym_parameter_list_repeat1"}>>,
      <<284, {"ts_builtin_sym_end", "anon_sym_do_COLON", "anon_sym_declare_COLON",
          "anon_sym_note_COLON", "anon_sym_noteblock_COLON", "anon_sym_building_COLON",
          "anon_sym_floor_COLON", "anon_sym_step_COLON", "anon_sym_riser_COLON",
          "anon_sym_belongsto_COLON", "anon_sym_expects_COLON", "anon_sym_returns_COLON",
          "anon_sym_set", "anon_sym_call", "anon_sym_display", "anon_sym_input",
          "sym_exit_statement", "anon_sym_if", "anon_sym_repeat", "anon_sym_foreach",
          "anon_sym_while", "anon_sym_attempt_COLON", "anon_sym_add", "anon_sym_remove",
          "sym__newline"}>>
    >>,
  (* state 41, [2306] *) <<
      <<124, {"anon_sym_otherwiseif"}>>, <<126, {"anon_sym_otherwise"}>>,
      <<66, {"sym_otherwise_clause"}>>,
      <<51, {"sym_otherwise_if_clause", "aux_sym_if_statement_repeat1"}>>,
      <<290, {"ts_builtin_sym_end", "anon_sym_do_COLON", "anon_sym_declare_COLON",
          "anon_sym_note_COLON", "anon_sym_noteblock_COLON", "anon_sym_building_COLON",
          "anon_sym_floor_COLON", "anon_sym_step_COLON", "anon_sym_riser_COLON", "anon_sym_set",
          "anon_sym_call", "anon_sym_display", "anon_sym_input", "anon_sym_return",
          "sym_exit_statement", "anon_sym_if", "anon_sym_repeat", "anon_sym_foreach",
          "anon_sym_while", "anon_sym_attempt_COLON", "anon_sym_add", "anon_sym_remove",
          "sym__newline"}>>
    >>,
  (* state 42, [2345] *) <<
      <<294, {"anon_sym_COMMA"}>>, <<297, {"anon_sym_return"}>>,
      <<42, {"aux_sym_parameter_list_repeat1"}>>,
      <<292, {"ts_builtin_sym_end", "anon_sym_do_COLON", "anon_sym_declare_COLON",
          "anon_sym_note_COLON", "anon_sym_noteblock_COLON", "anon_sym_building_COLON",
          "anon_sym_floor_COLON", "anon_sym_step_COLON", "anon_sym_riser_COLON",
          "anon_sym_belongsto_COLON", "anon_sym_expects_COLON", "anon_sym_returns_COLON",
          "anon_sym_set", "anon_sym_call", "anon_sym_display", "anon_sym_input",
          "sym_exit_statement", "anon_sym_if", "anon_sym_repeat", "anon_sym_foreach",
          "anon_sym_while", "anon_sym_attempt_COLON", "anon_sym_add", "anon_sym_remove",
          "sym__newline"}>>
    >>,
  (* state 43, [2382] *) <<
      <<286, {"anon_sym_COMMA"}>>, <<301, {"anon_sym_return"}>>,
      <<42, {"aux_sym_parameter_list_repeat1"}>>,
      <<299, {"ts_builtin_sym_end", "anon_sym_do_COLON", "anon_sym_declare_COLON",
          "anon_sym_note_COLON", "anon_sym_noteblock_COLON", "anon_sym_building_COLON",
          "anon_sym_floor_COLON", "anon_sym_step_COLON", "anon_sym_riser_COLON",
          "anon_sym_belongsto_COLON", "anon_sym_expects_COLON", "anon_sym_returns_COLON",
          "anon_sym_set", "anon_sym_call", "anon_sym_display", "anon_sym_input",
          "sym_exit_statement", "anon_sym_if", "anon_sym_repeat", "anon_sym_foreach",
          "anon_sym_while", "anon_sym_attempt_COLON", "anon_sym_add", "anon_sym_remove",
          "sym__newline"}>>
    >>,
  (* state 44, [2419] *) <<
      <<71, {"anon_sym_COMMA"}>>, <<49, {"aux_sym_argument_list_repeat1"}>>,
      <<80, {"ts_builtin_sym_end", "anon_sym_do_COLON", "anon_sym_declare_COLON",
          "anon_sym_note_COLON", "anon_sym_noteblock_COLON", "anon_sym_building_COLON",
          "anon_sym_floor_COLON", "anon_sym_step_COLON", "anon_sym_riser_COLON", "anon_sym_set",
          "anon_sym_call", "anon_sym_storingresultin", "anon_sym_display", "anon_sym_input",
          "anon_sym_return", "sym_exit_statement", "anon_sym_if", "anon_sym_repeat",
          "anon_sym_foreach", "anon_sym_while", "anon_sym_attempt_COLON", "anon_sym_add",
          "anon_sym_remove", "anon_sym_RBRACK", "sym__newline"}>>
    >>,
  (* state 45, [2453] *) <<
      <<305, {"anon_sym_if"}>>, <<307, {"anon_sym_ifunsuccessful_COLON"}>>,
      <<309, {"anon_sym_thencontinue_COLON"}>>, <<56, {"sym_if_unsuccessful_clause"}>>,
      <<80, {"sym_then_continue_clause"}>>,
      <<303, {"ts_builtin_sym_end", "anon_sym_do_COLON", "anon_sym_declare_COLON",
          "anon_sym_note_COLON", "anon_sym_noteblock_COLON", "anon_sym_building_COLON",
          "anon_sym_floor_COLON", "anon_sym_step_COLON", "anon_sym_riser_COLON", "anon_sym_set",
          "anon_sym_call", "anon_sym_display", "anon_sym_input", "anon_sym_return",
          "sym_exit_statement", "anon_sym_repeat", "anon_sym_foreach", "anon_sym_while",
          "anon_sym_attempt_COLON", "anon_sym_add", "anon_sym_remove", "sym__newline"}>>
    >>,
  (* state 46, [2493] *) <<
      <<313, {"anon_sym_return"}>>,
      <<311, {"ts_builtin_sym_end", "anon_sym_do_COLON", "anon_sym_declare_COLON",
          "anon_sym_note_COLON", "anon_sym_noteblock_COLON", "anon_sym_building_COLON",
          "anon_sym_floor_COLON", "anon_sym_step_COLON", "anon_sym_riser_COLON",
          "anon_sym_belongsto_COLON", "anon_sym_expects_COLON", "anon_sym_returns_COLON",
          "anon_sym_COMMA", "anon_sym_set", "anon_sym_call", "anon_sym_display", "anon_sym_input",
          "sym_exit_statement", "anon_sym_if", "anon_sym_repeat", "anon_sym_foreach",
          "anon_sym_while", "anon_sym_attempt_COLON", "anon_sym_add", "anon_sym_remove",
          "sym__newline"}>>
    >>,
  (* state 47, [2525] *) <<
      <<297, {"anon_sym_return"}>>,
      <<292, {"ts_builtin_sym_end", "anon_sym_do_COLON", "anon_sym_declare_COLON",
          "anon_sym_note_COLON", "anon_sym_noteblock_COLON", "anon_sym_building_COLON",
          "anon_sym_floor_COLON", "anon_sym_step_COLON", "anon_sym_riser_COLON",
          "anon_sym_belongsto_COLON", "anon_sym_expects_COLON", "anon_sym_returns_COLON",
          "anon_sym_COMMA", "anon_sym_set", "anon_sym_call", "anon_sym_display", "anon_sym_input",
          "sym_exit_statement", "anon_sym_if", "anon_sym_repeat", "anon_sym_foreach",
          "anon_sym_while", "anon_sym_attempt_COLON", "anon_sym_add", "anon_sym_remove",
          "sym__newline"}>>
    >>,
  (* state 48, [2557] *) <<
      <<317, {"anon_sym_return"}>>,
      <<315, {"ts_builtin_sym_end", "anon_sym_do_COLON", "anon_sym_declare_COLON",
          "anon_sym_note_COLON", "anon_sym_noteblock_COLON", "anon_sym_building_COLON",
          "anon_sym_floor_COLON", "anon_sym_step_COLON", "anon_sym_riser_COLON",
          "anon_sym_belongsto_COLON", "anon_sym_expects_COLON", "anon_sym_returns_COLON",
          "anon_sym_COMMA", "anon_sym_set", "anon_sym_call", "anon_sym_display", "anon_sym_input",
          "sym_exit_statement", "anon_sym_if", "anon_sym_repeat", "anon_sym_foreach",
          "anon_sym_while", "anon_sym_attempt_COLON", "anon_sym_add", "anon_sym_remove",
          "sym__newline"}>>
    >>,
  (* state 49, [2589] *) <<
      <<75, {"anon_sym_COMMA"}>>, <<49, {"aux_sym_argument_list_repeat1"}>>,
      <<73, {"ts_builtin_sym_end", "anon_sym_do_COLON", "anon_sym_declare_COLON",
          "anon_sym_note_COLON", "anon_sym_noteblock_COLON", "anon_sym_building_COLON",
          "anon_sym_floor_COLON", "anon_sym_step_COLON", "anon_sym_riser_COLON", "anon_sym_set",
          "anon_sym_call", "anon_sym_storingresultin", "anon_sym_display", "anon_sym_input",
          "anon_sym_return", "sym_exit_statement", "anon_sym_if", "anon_sym_repeat",
          "anon_sym_foreach", "anon_sym_while", "anon_sym_attempt_COLON", "anon_sym_add",
          "anon_sym_remove", "anon_sym_RBRACK", "sym__newline"}>>
    >>,
  (* state 50, [2623] *) <<
      <<321, {"anon_sym_with"}>>, <<323, {"anon_sym_storingresultin"}>>,
      <<57, {"sym_with_clause"}>>, <<74, {"sym_storing_clause"}>>,
      <<319, {"ts_builtin_sym_end", "anon_sym_do_COLON", "anon_sym_declare_COLON",
          "anon_sym_note_COLON", "anon_sym_noteblock_COLON", "anon_sym_building_COLON",
          "anon_sym_floor_COLON", "anon_sym_step_COLON", "anon_sym_riser_COLON", "anon_sym_set",
          "anon_sym_call", "anon_sym_display", "anon_sym_input", "anon_sym_return",
          "sym_exit_statement", "anon_sym_if", "anon_sym_repeat", "anon_sym_foreach",
          "anon_sym_while", "anon_sym_attempt_COLON", "anon_sym_add", "anon_sym_remove",
          "sym__newline"}>>
    >>,
  (* state 51, [2661] *) <<
      <<327, {"anon_sym_otherwiseif"}>>, <<330, {"anon_sym_otherwise"}>>,
      <<51, {"sym_otherwise_if_clause", "aux_sym_if_statement_repeat1"}>>,
      <<325, {"ts_builtin_sym_end", "anon_sym_do_COLON", "anon_sym_declare_COLON",
          "anon_sym_note_COLON", "anon_sym_noteblock_COLON", "anon_sym_building_COLON",
          "anon_sym_floor_COLON", "anon_sym_step_COLON", "anon_sym_riser_COLON", "anon_sym_set",
          "anon_sym_call", "anon_sym_display", "anon_sym_input", "anon_sym_return",
          "sym_exit_statement", "anon_sym_if", "anon_sym_repeat", "anon_sym_foreach",
          "anon_sym_while", "anon_sym_attempt_COLON", "anon_sym_add", "anon_sym_remove",
          "sym__newline"}>>
    >>,
  (* state 52, [2697] *) <<
      <<334, {"anon_sym_return"}>>,
      <<332, {"ts_builtin_sym_end", "anon_sym_do_COLON", "anon_sym_declare_COLON",
          "anon_sym_note_COLON", "anon_sym_noteblock_COLON", "anon_sym_building_COLON",
          "anon_sym_floor_COLON", "anon_sym_step_COLON", "anon_sym_riser_COLON",
          "anon_sym_belongsto_COLON", "anon_sym_expects_COLON", "anon_sym_returns_COLON",
          "anon_sym_set", "anon_sym_call", "anon_sym_display", "anon_sym_input",
          "sym_exit_statement", "anon_sym_if", "anon_sym_repeat", "anon_sym_foreach",
          "anon_sym_while", "anon_sym_attempt_COLON", "anon_sym_add", "anon_sym_remove",
          "sym__newline"}>>
    >>,
  (* state 53, [2728] *) <<
      <<338, {"anon_sym_return"}>>,
      <<336, {"ts_builtin_sym_end", "anon_sym_do_COLON", "anon_sym_declare_COLON",
          "anon_sym_note_COLON", "anon_sym_noteblock_COLON", "anon_sym_building_COLON",
          "anon_sym_floor_COLON", "anon_sym_step_COLON", "anon_sym_riser_COLON",
          "anon_sym_belongsto_COLON", "anon_sym_expects_COLON", "anon_sym_returns_COLON",
          "anon_sym_set", "anon_sym_call", "anon_sym_display", "anon_sym_input",
          "sym_exit_statement", "anon_sym_if", "anon_sym_repeat", "anon_sym_foreach",
          "anon_sym_while", "anon_sym_attempt_COLON", "anon_sym_add", "anon_sym_remove",
          "sym__newline"}>>
    >>,
  (* state 54, [2759] *) <<
      <<342, {"anon_sym_return"}>>,
      <<340, {"ts_builtin_sym_end", "anon_sym_do_COLON", "anon_sym_declare_COLON",
          "anon_sym_note_COLON", "anon_sym_noteblock_COLON", "anon_sym_building_COLON",
          "anon_sym_floor_COLON", "anon_sym_step_COLON", "anon_sym_riser_COLON",
          "anon_sym_belongsto_COLON", "anon_sym_expects_COLON", "anon_sym_returns_COLON",
          "anon_sym_set", "anon_sym_call", "anon_sym_display", "anon_sym_input",
          "sym_exit_statement", "anon_sym_if", "anon_sym_repeat", "anon_sym_foreach",
          "anon_sym_while", "anon_sym_attempt_COLON", "anon_sym_add", "anon_sym_remove",
          "sym__newline"}>>
    >>,
  (* state 55, [2790] *) <<
      <<346, {"sym_identifier"}>>, <<348, {"anon_sym_fixed"}>>,
      <<350, {"anon_sym_set", "anon_sym_call", "anon_sym_display", "anon_sym_input",
          "anon_sym_return", "sym_exit_statement", "anon_sym_if", "anon_sym_repeat",
          "anon_sym_while", "anon_sym_add", "anon_sym_remove"}>>,
      <<344, {"ts_builtin_sym_end", "anon_sym_do_COLON", "anon_sym_declare_COLON",
          "anon_sym_note_COLON", "anon_sym_noteblock_COLON", "anon_sym_building_COLON",
          "anon_sym_floor_COLON", "anon_sym_step_COLON", "anon_sym_riser_COLON", "anon_sym_foreach",
          "anon_sym_attempt_COLON", "sym__newline"}>>
    >>,
  (* state 56, [2824] *) <<
      <<309, {"anon_sym_thencontinue_COLON"}>>, <<82, {"sym_then_continue_clause"}>>,
      <<352, {"ts_builtin_sym_end", "anon_sym_do_COLON", "anon_sym_declare_COLON",
          "anon_sym_note_COLON", "anon_sym_noteblock_COLON", "anon_sym_building_COLON",
          "anon_sym_floor_COLON", "anon_sym_step_COLON", "anon_sym_riser_COLON", "anon_sym_set",
          "anon_sym_call", "anon_sym_display", "anon_sym_input", "anon_sym_return",
          "sym_exit_statement", "anon_sym_if", "anon_sym_repeat", "anon_sym_foreach",
          "anon_sym_while", "anon_sym_attempt_COLON", "anon_sym_add", "anon_sym_remove",
          "sym__newline"}>>
    >>,
  (* state 57, [2856] *) <<
      <<323, {"anon_sym_storingresultin"}>>, <<65, {"sym_storing_clause"}>>,
      <<354, {"ts_builtin_sym_end", "anon_sym_do_COLON", "anon_sym_declare_COLON",
          "anon_sym_note_COLON", "anon_sym_noteblock_COLON", "anon_sym_building_COLON",
          "anon_sym_floor_COLON", "anon_sym_step_COLON", "anon_sym_riser_COLON", "anon_sym_set",
          "anon_sym_call", "anon_sym_display", "anon_sym_input", "anon_sym_return",
          "sym_exit_statement", "anon_sym_if", "anon_sym_repeat", "anon_sym_foreach",
          "anon_sym_while", "anon_sym_attempt_COLON", "anon_sym_add", "anon_sym_remove",
          "sym__newline"}>>
    >>,
  (* state 58, [2888] *) <<
      <<356, {"ts_builtin_sym_end"}>>, <<360, {"sym_comment_content"}>>,
      <<358, {"anon_sym_do_COLON", "anon_sym_declare_COLON", "anon_sym_note_COLON",
          "anon_sym_noteblock_COLON", "anon_sym_building_COLON", "anon_sym_floor_COLON",
          "anon_sym_step_COLON", "anon_sym_riser_COLON", "anon_sym_set", "anon_sym_call",
          "anon_sym_display", "anon_sym_input", "anon_sym_return", "sym_exit_statement",
          "anon_sym_if", "anon_sym_repeat", "anon_sym_foreach", "anon_sym_while",
          "anon_sym_attempt_COLON", "anon_sym_add", "anon_sym_remove", "sym__newline"}>>
    >>,
  (* state 59, [2919] *) <<
      <<364, {"anon_sym_EQ"}>>,
      <<362, {"ts_builtin_sym_end", "anon_sym_do_COLON", "anon_sym_declare_COLON",
          "anon_sym_note_COLON", "anon_sym_noteblock_COLON", "anon_sym_building_COLON",
          "anon_sym_floor_COLON", "anon_sym_step_COLON", "anon_sym_riser_COLON", "anon_sym_set",
          "anon_sym_call", "anon_sym_display", "anon_sym_input", "anon_sym_return",
          "sym_exit_statement", "anon_sym_if", "anon_sym_repeat", "anon_sym_foreach",
          "anon_sym_while", "anon_sym_attempt_COLON", "anon_sym_add", "anon_sym_remove",
          "sym__newline"}>>
    >>,
  (* state 60, [2948] *) <<
      <<311, {"ts_builtin_sym_end", "anon_sym_do_COLON", "anon_sym_declare_COLON",
          "anon_sym_note_COLON", "anon_sym_noteblock_COLON", "anon_sym_building_COLON",
          "anon_sym_floor_COLON", "anon_sym_step_COLON", "anon_sym_riser_COLON", "anon_sym_EQ",
          "anon_sym_set", "anon_sym_call", "anon_sym_display", "anon_sym_input", "anon_sym_return",
          "sym_exit_statement", "anon_sym_if", "anon_sym_repeat", "anon_sym_foreach",
          "anon_sym_while", "anon_sym_attempt_COLON", "anon_sym_add", "anon_sym_remove",
          "sym__newline"}>>
    >>,
  (* state 61, [2975] *) <<
      <<366, {"ts_builtin_sym_end", "anon_sym_do_COLON", "anon_sym_declare_COLON",
          "anon_sym_note_COLON", "anon_sym_noteblock_COLON", "anon_sym_building_COLON",
          "anon_sym_floor_COLON", "anon_sym_step_COLON", "anon_sym_riser_COLON", "anon_sym_set",
          "anon_sym_call", "anon_sym_display", "anon_sym_input", "anon_sym_return",
          "sym_exit_statement", "anon_sym_if", "anon_sym_repeat", "anon_sym_foreach",
          "anon_sym_while", "anon_sym_attempt_COLON", "anon_sym_thencontinue_COLON", "anon_sym_add",
          "anon_sym_remove", "sym__newline"}>>
    >>,
  (* state 62, [3002] *) <<
      <<106, {"ts_builtin_sym_end", "anon_sym_do_COLON", "anon_sym_declare_COLON",
          "anon_sym_note_COLON", "anon_sym_noteblock_COLON", "anon_sym_building_COLON",
          "anon_sym_floor_COLON", "anon_sym_step_COLON", "anon_sym_riser_COLON", "anon_sym_set",
          "anon_sym_call", "anon_sym_storingresultin", "anon_sym_display", "anon_sym_input",
          "anon_sym_return", "sym_exit_statement", "anon_sym_if", "anon_sym_repeat",
          "anon_sym_foreach", "anon_sym_while", "anon_sym_attempt_COLON", "anon_sym_add",
          "anon_sym_remove", "sym__newline"}>>
    >>,
  (* state 63, [3029] *) <<
      <<370, {"anon_sym_EQ"}>>,
      <<368, {"ts_builtin_sym_end", "anon_sym_do_COLON", "anon_sym_declare_COLON",
          "anon_sym_note_COLON", "anon_sym_noteblock_COLON", "anon_sym_building_COLON",
          "anon_sym_floor_COLON", "anon_sym_step_COLON", "anon_sym_riser_COLON", "anon_sym_set",
          "anon_sym_call", "anon_sym_display", "anon_sym_input", "anon_sym_return",
          "sym_exit_statement", "anon_sym_if", "anon_sym_repeat", "anon_sym_foreach",
          "anon_sym_while", "anon_sym_attempt_COLON", "anon_sym_add", "anon_sym_remove",
          "sym__newline"}>>
    >>,
  (* state 64, [3058] *) <<
      <<372, {"ts_builtin_sym_end", "anon_sym_do_COLON", "anon_sym_declare_COLON",
          "anon_sym_note_COLON", "anon_sym_noteblock_COLON", "anon_sym_building_COLON",
          "anon_sym_floor_COLON", "anon_sym_step_COLON", "anon_sym_riser_COLON", "anon_sym_set",
          "anon_sym_call", "anon_sym_display", "anon_sym_input", "anon_sym_return",
          "sym_exit_statement", "anon_sym_if", "anon_sym_repeat", "anon_sym_foreach",
          "anon_sym_while", "anon_sym_attempt_COLON", "anon_sym_add", "anon_sym_remove",
          "sym__newline"}>>
    >>,
  (* state 65, [3084] *) <<
      <<374, {"ts_builtin_sym_end", "anon_sym_do_COLON", "anon_sym_declare_COLON",
          "anon_sym_note_COLON", "anon_sym_noteblock_COLON", "anon_sym_building_COLON",
          "anon_sym_floor_COLON", "anon_sym_step_COLON", "anon_sym_riser_COLON", "anon_sym_set",
          "anon_sym_call", "anon_sym_display", "anon_sym_input", "anon_sym_return",
          "sym_exit_statement", "anon_sym_if", "anon_sym_repeat", "anon_sym_foreach",
          "anon_sym_while", "anon_sym_attempt_COLON", "anon_sym_add", "anon_sym_remove",
          "sym__newline"}>>
    >>,
  (* state 66, [3110] *) <<
      <<376, {"ts_builtin_sym_end", "anon_sym_do_COLON", "anon_sym_declare_COLON",
          "anon_sym_note_COLON", "anon_sym_noteblock_COLON", "anon_sym_building_COLON",
          "anon_sym_floor_COLON", "anon_sym_step_COLON", "anon_sym_riser_COLON", "anon_sym_set",
          "anon_sym_call", "anon_sym_display", "anon_sym_input", "anon_sym_return",
          "sym_exit_statement", "anon_sym_if", "anon_sym_repeat", "anon_sym_foreach",
          "anon_sym_while", "anon_sym_attempt_COLON", "anon_sym_add", "anon_sym_remove",
          "sym__newline"}>>
    >>,
  (* state 67, [3136] *) <<
      <<378, {"ts_builtin_sym_end", "anon_sym_do_COLON", "anon_sym_declare_COLON",
          "anon_sym_note_COLON", "anon_sym_noteblock_COLON", "anon_sym_building_COLON",
          "anon_sym_floor_COLON", "anon_sym_step_COLON", "anon_sym_riser_COLON", "anon_sym_set",
          "anon_sym_call", "anon_sym_display", "anon_sym_input", "anon_sym_return",
          "sym_exit_statement", "anon_sym_if", "anon_sym_repeat", "anon_sym_foreach",
          "anon_sym_while", "anon_sym_attempt_COLON", "anon_sym_add", "anon_sym_remove",
          "sym__newline"}>>
    >>,
  (* state 68, [3162] *) <<
      <<380, {"ts_builtin_sym_end", "anon_sym_do_COLON", "anon_sym_declare_COLON",
          "anon_sym_note_COLON", "anon_sym_noteblock_COLON", "anon_sym_building_COLON",
          "anon_sym_floor_COLON", "anon_sym_step_COLON", "anon_sym_riser_COLON", "anon_sym_set",
          "anon_sym_call", "anon_sym_display", "anon_sym_input", "anon_sym_return",
          "sym_exit_statement", "anon_sym_if", "anon_sym_repeat", "anon_sym_foreach",
          "anon_sym_while", "anon_sym_attempt_COLON", "anon_sym_add", "anon_sym_remove",
          "sym__newline"}>>
    >>,
  (* state 69, [3188] *) <<
      <<382, {"ts_builtin_sym_end", "anon_sym_do_COLON", "anon_sym_declare_COLON",
          "anon_sym_note_COLON", "anon_sym_noteblock_COLON", "anon_sym_building_COLON",
          "anon_sym_floor_COLON", "anon_sym_step_COLON", "anon_sym_riser_COLON", "anon_sym_set",
          "anon_sym_call", "anon_sym_display", "anon_sym_input", "anon_sym_return",
          "sym_exit_statement", "anon_sym_if", "anon_sym_repeat", "anon_sym_foreach",
          "anon_sym_while", "anon_sym_attempt_COLON", "anon_sym_add", "anon_sym_remove",
          "sym__newline"}>>
    >>,
  (* state 70, [3214] *) <<
      <<229, {"anon_sym_DQUOTE"}>>, <<233, {"anon_sym_LBRACK"}>>, <<235, {"anon_sym_not"}>>,
      <<237, {"anon_sym_lengthof"}>>, <<239, {"anon_sym_LPAREN"}>>, <<386, {"anon_sym_call"}>>,
      <<388, {"sym_number"}>>, <<390, {"anon_sym_RBRACK"}>>, <<97, {"sym_unary_operator"}>>,
      <<137, {"sym_argument_list"}>>, <<231, {"anon_sym_true", "anon_sym_false"}>>,
      <<384, {"sym_nothing", "sym_identifier"}>>,
      <<24, {"sym__expression", "sym_string", "sym_boolean", "sym_list_literal",
          "sym_binary_expression", "sym_unary_expression", "sym_call_expression",
          "sym_index_expression", "sym_parenthesized_expression"}>>
    >>,
  (* state 71, [3264] *) <<
      <<392, {"ts_builtin_sym_end", "anon_sym_do_COLON", "anon_sym_declare_COLON",
          "anon_sym_note_COLON", "anon_sym_noteblock_COLON", "anon_sym_building_COLON",
          "anon_sym_floor_COLON", "anon_sym_step_COLON", "anon_sym_riser_COLON", "anon_sym_set",
          "anon_sym_call", "anon_sym_display", "anon_sym_input", "anon_sym_return",
          "sym_exit_statement", "anon_sym_if", "anon_sym_repeat", "anon_sym_foreach",
          "anon_sym_while", "anon_sym_attempt_COLON", "anon_sym_add", "anon_sym_remove",
          "sym__newline"}>>
    >>,
  (* state 72, [3290] *) <<
      <<394, {"ts_builtin_sym_end", "anon_sym_do_COLON", "anon_sym_declare_COLON",
          "anon_sym_note_COLON", "anon_sym_noteblock_COLON", "anon_sym_building_COLON",
          "anon_sym_floor_COLON", "anon_sym_step_COLON", "anon_sym_riser_COLON", "anon_sym_set",
          "anon_sym_call", "anon_sym_display", "anon_sym_input", "anon_sym_return",
          "sym_exit_statement", "anon_sym_if", "anon_sym_repeat", "anon_sym_foreach",
          "anon_sym_while", "anon_sym_attempt_COLON", "anon_sym_add", "anon_sym_remove",
          "sym__newline"}>>
    >>,
  (* state 73, [3316] *) <<
      <<396, {"ts_builtin_sym_end", "anon_sym_do_COLON", "anon_sym_declare_COLON",
          "anon_sym_note_COLON", "anon_sym_noteblock_COLON", "anon_sym_building_COLON",
          "anon_sym_floor_COLON", "anon_sym_step_COLON", "anon_sym_riser_COLON", "anon_sym_set",
          "anon_sym_call", "anon_sym_display", "anon_sym_input", "anon_sym_return",
          "sym_exit_statement", "anon_sym_if", "anon_sym_repeat", "anon_sym_foreach",
          "anon_sym_while", "anon_sym_attempt_COLON", "anon_sym_add", "anon_sym_remove",
          "sym__newline"}>>
    >>,
  (* state 74, [3342] *) <<
      <<354, {"ts_builtin_sym_end", "anon_sym_do_COLON", "anon_sym_declare_COLON",
          "anon_sym_note_COLON", "anon_sym_noteblock_COLON", "anon_sym_building_COLON",
          "anon_sym_floor_COLON", "anon_sym_step_COLON", "anon_sym_riser_COLON", "anon_sym_set",
          "anon_sym_call", "anon_sym_display", "anon_sym_input", "anon_sym_return",
          "sym_exit_statement", "anon_sym_if", "anon_sym_repeat", "anon_sym_foreach",
          "anon_sym_while", "anon_sym_attempt_COLON", "anon_sym_add", "anon_sym_remove",
          "sym__newline"}>>
    >>,
  (* state 75, [3368] *) <<
      <<290, {"ts_builtin_sym_end", "anon_sym_do_COLON", "anon_sym_declare_COLON",
          "anon_sym_note_COLON", "anon_sym_noteblock_COLON", "anon_sym_building_COLON",
          "anon_sym_floor_COLON", "anon_sym_step_COLON", "anon_sym_riser_COLON", "anon_sym_set",
          "anon_sym_call", "anon_sym_display", "anon_sym_input", "anon_sym_return",
          "sym_exit_statement", "anon_sym_if", "anon_sym_repeat", "anon_sym_foreach",
          "anon_sym_while", "anon_sym_attempt_COLON", "anon_sym_add", "anon_sym_remove",
          "sym__newline"}>>
    >>,
  (* state 76, [3394] *) <<
      <<398, {"ts_builtin_sym_end", "anon_sym_do_COLON", "anon_sym_declare_COLON",
          "anon_sym_note_COLON", "anon_sym_noteblock_COLON", "anon_sym_building_COLON",
          "anon_sym_floor_COLON", "anon_sym_step_COLON", "anon_sym_riser_COLON", "anon_sym_set",
          "anon_sym_call", "anon_sym_display", "anon_sym_input", "anon_sym_return",
          "sym_exit_statement", "anon_sym_if", "anon_sym_repeat", "anon_sym_foreach",
          "anon_sym_while", "anon_sym_attempt_COLON", "anon_sym_add", "anon_sym_remove",
          "sym__newline"}>>
    >>,
  (* state 77, [3420] *) <<
      <<344, {"ts_builtin_sym_end", "anon_sym_do_COLON", "anon_sym_declare_COLON",
          "anon_sym_note_COLON", "anon_sym_noteblock_COLON", "anon_sym_building_COLON",
          "anon_sym_floor_COLON", "anon_sym_step_COLON", "anon_sym_riser_COLON", "anon_sym_set",
          "anon_sym_call", "anon_sym_display", "anon_sym_input", "anon_sym_return",
          "sym_exit_statement", "anon_sym_if", "anon_sym_repeat", "anon_sym_foreach",
          "anon_sym_while", "anon_sym_attempt_COLON", "anon_sym_add", "anon_sym_remove",
          "sym__newline"}>>
    >>,
  (* state 78, [3446] *) <<
      <<400, {"ts_builtin_sym_end", "anon_sym_do_COLON", "anon_sym_declare_COLON",
          "anon_sym_note_COLON", "anon_sym_noteblock_COLON", "anon_sym_building_COLON",
          "anon_sym_floor_COLON", "anon_sym_step_COLON", "anon_sym_riser_COLON", "anon_sym_set",
          "anon_sym_call", "anon_sym_display", "anon_sym_input", "anon_sym_return",
          "sym_exit_statement", "anon_sym_if", "anon_sym_repeat", "anon_sym_foreach",
          "anon_sym_while", "anon_sym_attempt_COLON", "anon_sym_add", "anon_sym_remove",
          "sym__newline"}>>
    >>,
  (* state 79, [3472] *) <<
      <<402, {"ts_builtin_sym_end", "anon_sym_do_COLON", "anon_sym_declare_COLON",
          "anon_sym_note_COLON", "anon_sym_noteblock_COLON", "anon_sym_building_COLON",
          "anon_sym_floor_COLON", "anon_sym_step_COLON", "anon_sym_riser_COLON", "anon_sym_set",
          "anon_sym_call", "anon_sym_display", "anon_sym_input", "anon_sym_return",
          "sym_exit_statement", "anon_sym_if", "anon_sym_repeat", "anon_sym_foreach",
          "anon_sym_while", "anon_sym_attempt_COLON", "anon_sym_add", "anon_sym_remove",
          "sym__newline"}>>
    >>,
  (* state 80, [3498] *) <<
      <<352, {"ts_builtin_sym_end", "anon_sym_do_COLON", "anon_sym_declare_COLON",
          "anon_sym_note_COLON", "anon_sym_noteblock_COLON", "anon_sym_building_COLON",
          "anon_sym_floor_COLON", "anon_sym_step_COLON", "anon_sym_riser_COLON", "anon_sym_set",
          "anon_sym_call", "anon_sym_display", "anon_sym_input", "anon_sym_return",
          "sym_exit_statement", "anon_sym_if", "anon_sym_repeat", "anon_sym_foreach",
          "anon_sym_while", "anon_sym_attempt_COLON", "anon_sym_add", "anon_sym_remove",
          "sym__newline"}>>
    >>,
  (* state 81, [3524] *) <<
      <<404, {"ts_builtin_sym_end", "anon_sym_do_COLON", "anon_sym_declare_COLON",
          "anon_sym_note_COLON", "anon_sym_noteblock_COLON", "anon_sym_building_COLON",
          "anon_sym_floor_COLON", "anon_sym_step_COLON", "anon_sym_riser_COLON", "anon_sym_set",
          "anon_sym_call", "anon_sym_display", "anon_sym_input", "anon_sym_return",
          "sym_exit_statement", "anon_sym_if", "anon_sym_repeat", "anon_sym_foreach",
          "anon_sym_while", "anon_sym_attempt_COLON", "anon_sym_add", "anon_sym_remove",
          "sym__newline"}>>
    >>,
  (* state 82, [3550] *) <<
      <<406, {"ts_builtin_sym_end", "anon_sym_do_COLON", "anon_sym_declare_COLON",
          "anon_sym_note_COLON", "anon_sym_noteblock_COLON", "anon_sym_building_COLON",
          "anon_sym_floor_COLON", "anon_sym_step_COLON", "anon_sym_riser_COLON", "anon_sym_set",
          "anon_sym_call", "anon_sym_display", "anon_sym_input", "anon_sym_return",
          "sym_exit_statement", "anon_sym_if", "anon_sym_repeat", "anon_sym_foreach",
          "anon_sym_while", "anon_sym_attempt_COLON", "anon_sym_add", "anon_sym_remove",
          "sym__newline"}>>
    >>,
  (* state 83, [3576] *) <<
      <<408, {"ts_builtin_sym_end", "anon_sym_do_COLON", "anon_sym_declare_COLON",
          "anon_sym_note_COLON", "anon_sym_noteblock_COLON", "anon_sym_building_COLON",
          "anon_sym_floor_COLON", "anon_sym_step_COLON", "anon_sym_riser_COLON", "anon_sym_set",
          "anon_sym_call", "anon_sym_display", "anon_sym_input", "anon_sym_return",
          "sym_exit_statement", "anon_sym_if", "anon_sym_repeat", "anon_sym_foreach",
          "anon_sym_while", "anon_sym_attempt_COLON", "anon_sym_add", "anon_sym_remove",
          "sym__newline"}>>
    >>,
  (* state 84, [3602] *) <<
      <<410, {"ts_builtin_sym_end", "anon_sym_do_COLON", "anon_sym_declare_COLON",
          "anon_sym_note_COLON", "anon_sym_noteblock_COLON", "anon_sym_building_COLON",
          "anon_sym_floor_COLON", "anon_sym_step_COLON", "anon_sym_riser_COLON", "anon_sym_set",
          "anon_sym_call", "anon_sym_display", "anon_sym_input", "anon_sym_return",
          "sym_exit_statement", "anon_sym_if", "anon_sym_repeat", "anon_sym_foreach",
          "anon_sym_while", "anon_sym_attempt_COLON", "anon_sym_add", "anon_sym_remove",
          "sym__newline"}>>
    >>,
  (* state 85, [3628] *) <<
      <<412, {"ts_builtin_sym_end", "anon_sym_do_COLON", "anon_sym_declare_COLON",
          "anon_sym_note_COLON", "anon_sym_noteblock_COLON", "anon_sym_building_COLON",
          "anon_sym_floor_COLON", "anon_sym_step_COLON", "anon_sym_riser_COLON", "anon_sym_set",
          "anon_sym_call", "anon_sym_display", "anon_sym_input", "anon_sym_return",
          "sym_exit_statement", "anon_sym_if", "anon_sym_repeat", "anon_sym_foreach",
          "anon_sym_while", "anon_sym_attempt_COLON", "anon_sym_add", "anon_sym_remove",
          "sym__newline"}>>
    >>,
  (* state 86, [3654] *) <<
      <<414, {"ts_builtin_sym_end", "anon_sym_do_COLON", "anon_sym_declare_COLON",
          "anon_sym_note_COLON", "anon_sym_noteblock_COLON", "anon_sym_building_COLON",
          "anon_sym_floor_COLON", "anon_sym_step_COLON", "anon_sym_riser_COLON", "anon_sym_set",
          "anon_sym_call", "anon_sym_display", "anon_sym_input", "anon_sym_return",
          "sym_exit_statement", "anon_sym_if", "anon_sym_repeat", "anon_sym_foreach",
          "anon_sym_while", "anon_sym_attempt_COLON", "anon_sym_add", "anon_sym_remove",
          "sym__newline"}>>
    >>,
  (* state 87, [3680] *) <<
      <<229, {"anon_sym_DQUOTE"}>>, <<233, {"anon_sym_LBRACK"}>>, <<235, {"anon_sym_not"}>>,
      <<237, {"anon_sym_lengthof"}>>, <<239, {"anon_sym_LPAREN"}>>, <<386, {"anon_sym_call"}>>,
      <<388, {"sym_number"}>>, <<62, {"sym_argument_list"}>>, <<97, {"sym_unary_operator"}>>,
      <<231, {"anon_sym_true", "anon_sym_false"}>>, <<384, {"sym_nothing", "sym_identifier"}>>,
      <<24, {"sym__expression", "sym_string", "sym_boolean", "sym_list_literal",
          "sym_binary_expression", "sym_unary_expression", "sym_call_expression",
          "sym_index_expression", "sym_parenthesized_expression"}>>
    >>,
  (* state 88, [3727] *) <<
      <<229, {"anon_sym_DQUOTE"}>>, <<233, {"anon_sym_LBRACK"}>>, <<235, {"anon_sym_not"}>>,
      <<237, {"anon_sym_lengthof"}>>, <<239, {"anon_sym_LPAREN"}>>, <<386, {"anon_sym_call"}>>,
      <<418, {"sym_number"}>>, <<17, {"sym_argument_list"}>>, <<97, {"sym_unary_operator"}>>,
      <<231, {"anon_sym_true", "anon_sym_false"}>>, <<416, {"sym_nothing", "sym_identifier"}>>,
      <<6, {"sym__expression", "sym_string", "sym_boolean", "sym_list_literal",
          "sym_binary_expression", "sym_unary_expression", "sym_call_expression",
          "sym_index_expression", "sym_parenthesized_expression"}>>
    >>,
  (* state 89, [3774] *) <<
      <<229, {"anon_sym_DQUOTE"}>>, <<233, {"anon_sym_LBRACK"}>>, <<235, {"anon_sym_not"}>>,
      <<237, {"anon_sym_lengthof"}>>, <<239, {"anon_sym_LPAREN"}>>, <<386, {"anon_sym_call"}>>,
      <<422, {"sym_number"}>>, <<17, {"sym_argument_list"}>>, <<97, {"sym_unary_operator"}>>,
      <<231, {"anon_sym_true", "anon_sym_false"}>>, <<420, {"sym_nothing", "sym_identifier"}>>,
      <<2, {"sym__expression", "sym_string", "sym_boolean", "sym_list_literal",
          "sym_binary_expression", "sym_unary_expression", "sym_call_expression",
          "sym_index_expression", "sym_parenthesized_expression"}>>
    >>,
  (* state 90, [3821] *) <<
      <<225, {"anon_sym_call"}>>, <<229, {"anon_sym_DQUOTE"}>>, <<233, {"anon_sym_LBRACK"}>>,
      <<235, {"anon_sym_not"}>>, <<237, {"anon_sym_lengthof"}>>, <<239, {"anon_sym_LPAREN"}>>,
      <<426, {"sym_number"}>>, <<102, {"sym_unary_operator"}>>,
      <<231, {"anon_sym_true", "anon_sym_false"}>>, <<424, {"sym_nothing", "sym_identifier"}>>,
      <<29, {"sym__expression", "sym_string", "sym_boolean", "sym_list_literal",
          "sym_binary_expression", "sym_unary_expression", "sym_call_expression",
          "sym_index_expression", "sym_parenthesized_expression"}>>
    >>,
  (* state 91, [3865] *) <<
      <<51, {"anon_sym_LBRACK"}>>, <<428, {"anon_sym_RPAREN"}>>, <<92, {"sym_binary_operator"}>>,
      <<55, {"anon_sym_islessthan", "anon_sym_isgreaterthan"}>>,
      <<53, {"anon_sym_PLUS", "anon_sym_DASH", "anon_sym_STAR", "anon_sym_SLASH",
          "anon_sym_isequalto", "anon_sym_equals", "anon_sym_isnotequalto",
          "anon_sym_islessthanorequalto", "anon_sym_isgreaterthanorequalto", "anon_sym_and",
          "anon_sym_or", "anon_sym_addedto", "anon_sym_contains", "anon_sym_startswith",
          "anon_sym_endswith", "anon_sym_isin"}>>
    >>,
  (* state 92, [3897] *) <<
      <<225, {"anon_sym_call"}>>, <<229, {"anon_sym_DQUOTE"}>>, <<233, {"anon_sym_LBRACK"}>>,
      <<235, {"anon_sym_not"}>>, <<237, {"anon_sym_lengthof"}>>, <<239, {"anon_sym_LPAREN"}>>,
      <<432, {"sym_number"}>>, <<102, {"sym_unary_operator"}>>,
      <<231, {"anon_sym_true", "anon_sym_false"}>>, <<430, {"sym_nothing", "sym_identifier"}>>,
      <<21, {"sym__expression", "sym_string", "sym_boolean", "sym_list_literal",
          "sym_binary_expression", "sym_unary_expression", "sym_call_expression",
          "sym_index_expression", "sym_parenthesized_expression"}>>
    >>,
  (* state 93, [3941] *) <<
      <<225, {"anon_sym_call"}>>, <<229, {"anon_sym_DQUOTE"}>>, <<233, {"anon_sym_LBRACK"}>>,
      <<235, {"anon_sym_not"}>>, <<237, {"anon_sym_lengthof"}>>, <<239, {"anon_sym_LPAREN"}>>,
      <<436, {"sym_number"}>>, <<102, {"sym_unary_operator"}>>,
      <<231, {"anon_sym_true", "anon_sym_false"}>>, <<434, {"sym_nothing", "sym_identifier"}>>,
      <<27, {"sym__expression", "sym_string", "sym_boolean", "sym_list_literal",
          "sym_binary_expression", "sym_unary_expression", "sym_call_expression",
          "sym_index_expression", "sym_parenthesized_expression"}>>
    >>,
  (* state 94, [3985] *) <<
      <<225, {"anon_sym_call"}>>, <<229, {"anon_sym_DQUOTE"}>>, <<233, {"anon_sym_LBRACK"}>>,
      <<235, {"anon_sym_not"}>>, <<237, {"anon_sym_lengthof"}>>, <<239, {"anon_sym_LPAREN"}>>,
      <<440, {"sym_number"}>>, <<102, {"sym_unary_operator"}>>,
      <<231, {"anon_sym_true", "anon_sym_false"}>>, <<438, {"sym_nothing", "sym_identifier"}>>,
      <<31, {"sym__expression", "sym_string", "sym_boolean", "sym_list_literal",
          "sym_binary_expression", "sym_unary_expression", "sym_call_expression",
          "sym_index_expression", "sym_parenthesized_expression"}>>
    >>,
  (* state 95, [4029] *) <<
      <<225, {"anon_sym_call"}>>, <<229, {"anon_sym_DQUOTE"}>>, <<233, {"anon_sym_LBRACK"}>>,
      <<235, {"anon_sym_not"}>>, <<237, {"anon_sym_lengthof"}>>, <<239, {"anon_sym_LPAREN"}>>,
      <<444, {"sym_number"}>>, <<102, {"sym_unary_operator"}>>,
      <<231, {"anon_sym_true", "anon_sym_false"}>>, <<442, {"sym_nothing", "sym_identifier"}>>,
      <<106, {"sym__expression", "sym_string", "sym_boolean", "sym_list_literal",
          "sym_binary_expression", "sym_unary_expression", "sym_call_expression",
          "sym_index_expression", "sym_parenthesized_expression"}>>
    >>,
  (* state 96, [4073] *) <<
      <<229, {"anon_sym_DQUOTE"}>>, <<233, {"anon_sym_LBRACK"}>>, <<235, {"anon_sym_not"}>>,
      <<237, {"anon_sym_lengthof"}>>, <<239, {"anon_sym_LPAREN"}>>, <<386, {"anon_sym_call"}>>,
      <<448, {"sym_number"}>>, <<97, {"sym_unary_operator"}>>,
      <<231, {"anon_sym_true", "anon_sym_false"}>>, <<446, {"sym_nothing", "sym_identifier"}>>,
      <<4, {"sym__expression", "sym_string", "sym_boolean", "sym_list_literal",
          "sym_binary_expression", "sym_unary_expression", "sym_call_expression",
          "sym_index_expression", "sym_parenthesized_expression"}>>
    >>,
  (* state 97, [4117] *) <<
      <<229, {"anon_sym_DQUOTE"}>>, <<233, {"anon_sym_LBRACK"}>>, <<235, {"anon_sym_not"}>>,
      <<237, {"anon_sym_lengthof"}>>, <<239, {"anon_sym_LPAREN"}>>, <<386, {"anon_sym_call"}>>,
      <<452, {"sym_number"}>>, <<97, {"sym_unary_operator"}>>,
      <<231, {"anon_sym_true", "anon_sym_false"}>>, <<450, {"sym_nothing", "sym_identifier"}>>,
      <<5, {"sym__expression", "sym_string", "sym_boolean", "sym_list_literal",
          "sym_binary_expression", "sym_unary_expression", "sym_call_expression",
          "sym_index_expression", "sym_parenthesized_expression"}>>
    >>,
  (* state 98, [4161] *) <<
      <<225, {"anon_sym_call"}>>, <<229, {"anon_sym_DQUOTE"}>>, <<233, {"anon_sym_LBRACK"}>>,
      <<235, {"anon_sym_not"}>>, <<237, {"anon_sym_lengthof"}>>, <<239, {"anon_sym_LPAREN"}>>,
      <<456, {"sym_number"}>>, <<102, {"sym_unary_operator"}>>,
      <<231, {"anon_sym_true", "anon_sym_false"}>>, <<454, {"sym_nothing", "sym_identifier"}>>,
      <<110, {"sym__expression", "sym_string", "sym_boolean", "sym_list_literal",
          "sym_binary_expression", "sym_unary_expression", "sym_call_expression",
          "sym_index_expression", "sym_parenthesized_expression"}>>
    >>,
  (* state 99, [4205] *) <<
      <<225, {"anon_sym_call"}>>, <<229, {"anon_sym_DQUOTE"}>>, <<233, {"anon_sym_LBRACK"}>>,
      <<235, {"anon_sym_not"}>>, <<237, {"anon_sym_lengthof"}>>, <<239, {"anon_sym_LPAREN"}>>,
      <<460, {"sym_number"}>>, <<102, {"sym_unary_operator"}>>,
      <<231, {"anon_sym_true", "anon_sym_false"}>>, <<458, {"sym_nothing", "sym_identifier"}>>,
      <<91, {"sym__expression", "sym_string", "sym_boolean", "sym_list_literal",
          "sym_binary_expression", "sym_unary_expression", "sym_call_expression",
          "sym_index_expression", "sym_parenthesized_expression"}>>
    >>,
  (* state 100, [4249] *) <<
      <<51, {"anon_sym_LBRACK"}>>, <<462, {"anon_sym_RBRACK"}>>, <<92, {"sym_binary_operator"}>>,
      <<55, {"anon_sym_islessthan", "anon_sym_isgreaterthan"}>>,
      <<53, {"anon_sym_PLUS", "anon_sym_DASH", "anon_sym_STAR", "anon_sym_SLASH",
          "anon_sym_isequalto", "anon_sym_equals", "anon_sym_isnotequalto",
          "anon_sym_islessthanorequalto", "anon_sym_isgreaterthanorequalto", "anon_sym_and",
          "anon_sym_or", "anon_sym_addedto", "anon_sym_contains", "anon_sym_startswith",
          "anon_sym_endswith", "anon_sym_isin"}>>
    >>,
  (* state 101, [4281] *) <<
      <<225, {"anon_sym_call"}>>, <<229, {"anon_sym_DQUOTE"}>>, <<233, {"anon_sym_LBRACK"}>>,
      <<235, {"anon_sym_not"}>>, <<237, {"anon_sym_lengthof"}>>, <<239, {"anon_sym_LPAREN"}>>,
      <<466, {"sym_number"}>>, <<102, {"sym_unary_operator"}>>,
      <<231, {"anon_sym_true", "anon_sym_false"}>>, <<464, {"sym_nothing", "sym_identifier"}>>,
      <<100, {"sym__expression", "sym_string", "sym_boolean", "sym_list_literal",
          "sym_binary_expression", "sym_unary_expression", "sym_call_expression",
          "sym_index_expression", "sym_parenthesized_expression"}>>
    >>,
  (* state 102, [4325] *) <<
      <<225, {"anon_sym_call"}>>, <<229, {"anon_sym_DQUOTE"}>>, <<233, {"anon_sym_LBRACK"}>>,
      <<235, {"anon_sym_not"}>>, <<237, {"anon_sym_lengthof"}>>, <<239, {"anon_sym_LPAREN"}>>,
      <<470, {"sym_number"}>>, <<102, {"sym_unary_operator"}>>,
      <<231, {"anon_sym_true", "anon_sym_false"}>>, <<468, {"sym_nothing", "sym_identifier"}>>,
      <<22, {"sym__expression", "sym_string", "sym_boolean", "sym_list_literal",
          "sym_binary_expression", "sym_unary_expression", "sym_call_expression",
          "sym_index_expression", "sym_parenthesized_expression"}>>
    >>,
  (* state 103, [4369] *) <<
      <<225, {"anon_sym_call"}>>, <<229, {"anon_sym_DQUOTE"}>>, <<233, {"anon_sym_LBRACK"}>>,
      <<235, {"anon_sym_not"}>>, <<237, {"anon_sym_lengthof"}>>, <<239, {"anon_sym_LPAREN"}>>,
      <<474, {"sym_number"}>>, <<102, {"sym_unary_operator"}>>,
      <<231, {"anon_sym_true", "anon_sym_false"}>>, <<472, {"sym_nothing", "sym_identifier"}>>,
      <<33, {"sym__expression", "sym_string", "sym_boolean", "sym_list_literal",
          "sym_binary_expression", "sym_unary_expression", "sym_call_expression",
          "sym_index_expression", "sym_parenthesized_expression"}>>
    >>,
  (* state 104, [4413] *) <<
      <<51, {"anon_sym_LBRACK"}>>, <<476, {"anon_sym_times"}>>, <<92, {"sym_binary_operator"}>>,
      <<55, {"anon_sym_islessthan", "anon_sym_isgreaterthan"}>>,
      <<53, {"anon_sym_PLUS", "anon_sym_DASH", "anon_sym_STAR", "anon_sym_SLASH",
          "anon_sym_isequalto", "anon_sym_equals", "anon_sym_isnotequalto",
          "anon_sym_islessthanorequalto", "anon_sym_isgreaterthanorequalto", "anon_sym_and",
          "anon_sym_or", "anon_sym_addedto", "anon_sym_contains", "anon_sym_startswith",
          "anon_sym_endswith", "anon_sym_isin"}>>
    >>,
  (* state 105, [4445] *) <<
      <<225, {"anon_sym_call"}>>, <<229, {"anon_sym_DQUOTE"}>>, <<233, {"anon_sym_LBRACK"}>>,
      <<235, {"anon_sym_not"}>>, <<237, {"anon_sym_lengthof"}>>, <<239, {"anon_sym_LPAREN"}>>,
      <<480, {"sym_number"}>>, <<102, {"sym_unary_operator"}>>,
      <<231, {"anon_sym_true", "anon_sym_false"}>>, <<478, {"sym_nothing", "sym_identifier"}>>,
      <<35, {"sym__expression", "sym_string", "sym_boolean", "sym_list_literal",
          "sym_binary_expression", "sym_unary_expression", "sym_call_expression",
          "sym_index_expression", "sym_parenthesized_expression"}>>
    >>,
  (* state 106, [4489] *) <<
      <<51, {"anon_sym_LBRACK"}>>, <<482, {"anon_sym_to"}>>, <<92, {"sym_binary_operator"}>>,
      <<55, {"anon_sym_islessthan", "anon_sym_isgreaterthan"}>>,
      <<53, {"anon_sym_PLUS", "anon_sym_DASH", "anon_sym_STAR", "anon_sym_SLASH",
          "anon_sym_isequalto", "anon_sym_equals", "anon_sym_isnotequalto",
          "anon_sym_islessthanorequalto", "anon_sym_isgreaterthanorequalto", "anon_sym_and",
          "anon_sym_or", "anon_sym_addedto", "anon_sym_contains", "anon_sym_startswith",
          "anon_sym_endswith", "anon_sym_isin"}>>
    >>,
  (* state 107, [4521] *) <<
      <<225, {"anon_sym_call"}>>, <<229, {"anon_sym_DQUOTE"}>>, <<233, {"anon_sym_LBRACK"}>>,
      <<235, {"anon_sym_not"}>>, <<237, {"anon_sym_lengthof"}>>, <<239, {"anon_sym_LPAREN"}>>,
      <<486, {"sym_number"}>>, <<102, {"sym_unary_operator"}>>,
      <<231, {"anon_sym_true", "anon_sym_false"}>>, <<484, {"sym_nothing", "sym_identifier"}>>,
      <<23, {"sym__expression", "sym_string", "sym_boolean", "sym_list_literal",
          "sym_binary_expression", "sym_unary_expression", "sym_call_expression",
          "sym_index_expression", "sym_parenthesized_expression"}>>
    >>,
  (* state 108, [4565] *) <<
      <<225, {"anon_sym_call"}>>, <<229, {"anon_sym_DQUOTE"}>>, <<233, {"anon_sym_LBRACK"}>>,
      <<235, {"anon_sym_not"}>>, <<237, {"anon_sym_lengthof"}>>, <<239, {"anon_sym_LPAREN"}>>,
      <<490, {"sym_number"}>>, <<102, {"sym_unary_operator"}>>,
      <<231, {"anon_sym_true", "anon_sym_false"}>>, <<488, {"sym_nothing", "sym_identifier"}>>,
      <<28, {"sym__expression", "sym_string", "sym_boolean", "sym_list_literal",
          "sym_binary_expression", "sym_unary_expression", "sym_call_expression",
          "sym_index_expression", "sym_parenthesized_expression"}>>
    >>,
  (* state 109, [4609] *) <<
      <<225, {"anon_sym_call"}>>, <<229, {"anon_sym_DQUOTE"}>>, <<233, {"anon_sym_LBRACK"}>>,
      <<235, {"anon_sym_not"}>>, <<237, {"anon_sym_lengthof"}>>, <<239, {"anon_sym_LPAREN"}>>,
      <<494, {"sym_number"}>>, <<102, {"sym_unary_operator"}>>,
      <<231, {"anon_sym_true", "anon_sym_false"}>>, <<492, {"sym_nothing", "sym_identifier"}>>,
      <<104, {"sym__expression", "sym_string", "sym_boolean", "sym_list_literal",
          "sym_binary_expression", "sym_unary_expression", "sym_call_expression",
          "sym_index_expression", "sym_parenthesized_expression"}>>
    >>,
  (* state 110, [4653] *) <<
      <<51, {"anon_sym_LBRACK"}>>, <<496, {"anon_sym_from"}>>, <<92, {"sym_binary_operator"}>>,
      <<55, {"anon_sym_islessthan", "anon_sym_isgreaterthan"}>>,
      <<53, {"anon_sym_PLUS", "anon_sym_DASH", "anon_sym_STAR", "anon_sym_SLASH",
          "anon_sym_isequalto", "anon_sym_equals", "anon_sym_isnotequalto",
          "anon_sym_islessthanorequalto", "anon_sym_isgreaterthanorequalto", "anon_sym_and",
          "anon_sym_or", "anon_sym_addedto", "anon_sym_contains", "anon_sym_startswith",
          "anon_sym_endswith", "anon_sym_isin"}>>
    >>,
  (* state 111, [4685] *) <<
      <<229, {"anon_sym_DQUOTE"}>>, <<233, {"anon_sym_LBRACK"}>>, <<235, {"anon_sym_not"}>>,
      <<237, {"anon_sym_lengthof"}>>, <<239, {"anon_sym_LPAREN"}>>, <<386, {"anon_sym_call"}>>,
      <<500, {"sym_number"}>>, <<97, {"sym_unary_operator"}>>,
      <<231, {"anon_sym_true", "anon_sym_false"}>>, <<498, {"sym_nothing", "sym_identifier"}>>,
      <<9, {"sym__expression", "sym_string", "sym_boolean", "sym_list_literal",
          "sym_binary_expression", "sym_unary_expression", "sym_call_expression",
          "sym_index_expression", "sym_parenthesized_expression"}>>
    >>,
  (* state 112, [4729] *) <<
      <<225, {"anon_sym_call"}>>, <<229, {"anon_sym_DQUOTE"}>>, <<233, {"anon_sym_LBRACK"}>>,
      <<235, {"anon_sym_not"}>>, <<237, {"anon_sym_lengthof"}>>, <<239, {"anon_sym_LPAREN"}>>,
      <<504, {"sym_number"}>>, <<102, {"sym_unary_operator"}>>,
      <<231, {"anon_sym_true", "anon_sym_false"}>>, <<502, {"sym_nothing", "sym_identifier"}>>,
      <<34, {"sym__expression", "sym_string", "sym_boolean", "sym_list_literal",
          "sym_binary_expression", "sym_unary_expression", "sym_call_expression",
          "sym_index_expression", "sym_parenthesized_expression"}>>
    >>,
  (* state 113, [4773] *) <<
      <<506, {"anon_sym_endnote"}>>, <<508, {"aux_sym_block_comment_content_token1"}>>,
      <<117, {"aux_sym_block_comment_content_repeat1"}>>, <<144, {"sym_block_comment_content"}>>,
      <<510, {"aux_sym_block_comment_content_token2", "aux_sym_block_comment_content_token3",
          "aux_sym_block_comment_content_token4", "aux_sym_block_comment_content_token5",
          "aux_sym_block_comment_content_token6", "aux_sym_block_comment_content_token7",
          "aux_sym_block_comment_content_token8"}>>
    >>,
  (* state 114, [4795] *) <<
      <<514, {"sym_number", "anon_sym_DQUOTE", "anon_sym_LBRACK", "anon_sym_lengthof",
          "anon_sym_LPAREN"}>>,
      <<512, {"anon_sym_call", "anon_sym_true", "anon_sym_false", "sym_nothing", "anon_sym_not",
          "sym_identifier"}>>
    >>,
  (* state 115, [4811] *) <<
      <<518, {"sym_number", "anon_sym_DQUOTE", "anon_sym_LBRACK", "anon_sym_lengthof",
          "anon_sym_LPAREN"}>>,
      <<516, {"anon_sym_call", "anon_sym_true", "anon_sym_false", "sym_nothing", "anon_sym_not",
          "sym_identifier"}>>
    >>,
  (* state 116, [4827] *) <<
      <<520, {"anon_sym_endnote"}>>, <<522, {"aux_sym_block_comment_content_token1"}>>,
      <<116, {"aux_sym_block_comment_content_repeat1"}>>,
      <<525, {"aux_sym_block_comment_content_token2", "aux_sym_block_comment_content_token3",
          "aux_sym_block_comment_content_token4", "aux_sym_block_comment_content_token5",
          "aux_sym_block_comment_content_token6", "aux_sym_block_comment_content_token7",
          "aux_sym_block_comment_content_token8"}>>
    >>,
  (* state 117, [4846] *) <<
      <<528, {"anon_sym_endnote"}>>, <<530, {"aux_sym_block_comment_content_token1"}>>,
      <<116, {"aux_sym_block_comment_content_repeat1"}>>,
      <<532, {"aux_sym_block_comment_content_token2", "aux_sym_block_comment_content_token3",
          "aux_sym_block_comment_content_token4", "aux_sym_block_comment_content_token5",
          "aux_sym_block_comment_content_token6", "aux_sym_block_comment_content_token7",
          "aux_sym_block_comment_content_token8"}>>
    >>,
  (* state 118, [4865] *) <<
      <<59, {"sym_type"}>>,
      <<534, {"anon_sym_number", "anon_sym_text", "anon_sym_boolean", "anon_sym_list",
          "anon_sym_table"}>>
    >>,
  (* state 119, [4876] *) <<
      <<53, {"sym_type"}>>,
      <<536, {"anon_sym_number", "anon_sym_text", "anon_sym_boolean", "anon_sym_list",
          "anon_sym_table"}>>
    >>,
  (* state 120, [4887] *) <<
      <<63, {"sym_type"}>>,
      <<534, {"anon_sym_number", "anon_sym_text", "anon_sym_boolean", "anon_sym_list",
          "anon_sym_table"}>>
    >>,
  (* state 121, [4898] *) <<
      <<48, {"sym_type"}>>,
      <<536, {"anon_sym_number", "anon_sym_text", "anon_sym_boolean", "anon_sym_list",
          "anon_sym_table"}>>
    >>,
  (* state 122, [4909] *) <<
      <<538, {"anon_sym_DQUOTE"}>>, <<540, {"aux_sym_string_content_token1"}>>,
      <<542, {"sym_escape_sequence"}>>, <<124, {"aux_sym_string_content_repeat1"}>>,
      <<133, {"sym_string_content"}>>
    >>,
  (* state 123, [4925] *) <<
      <<544, {"anon_sym_DQUOTE"}>>, <<546, {"aux_sym_string_content_token1"}>>,
      <<549, {"sym_escape_sequence"}>>, <<123, {"aux_sym_string_content_repeat1"}>>
    >>,
  (* state 124, [4938] *) <<
      <<552, {"anon_sym_DQUOTE"}>>, <<554, {"aux_sym_string_content_token1"}>>,
      <<556, {"sym_escape_sequence"}>>, <<123, {"aux_sym_string_content_repeat1"}>>
    >>,
  (* state 125, [4951] *) <<
      <<558, {"sym_identifier"}>>, <<40, {"sym_parameter"}>>, <<52, {"sym_parameter_list"}>>
    >>,
  (* state 126, [4961] *) <<
      <<558, {"sym_identifier"}>>, <<47, {"sym_parameter"}>>
    >>,
  (* state 127, [4968] *) <<
      <<560, {"sym_identifier"}>>
    >>,
  (* state 128, [4972] *) <<
      <<562, {"sym_identifier"}>>
    >>,
  (* state 129, [4976] *) <<
      <<564, {"ts_builtin_sym_end"}>>
    >>,
  (* state 130, [4980] *) <<
      <<566, {"sym_identifier"}>>
    >>,
  (* state 131, [4984] *) <<
      <<568, {"sym_identifier"}>>
    >>,
  (* state 132, [4988] *) <<
      <<570, {"anon_sym_as"}>>
    >>,
  (* state 133, [4992] *) <<
      <<572, {"anon_sym_DQUOTE"}>>
    >>,
  (* state 134, [4996] *) <<
      <<574, {"anon_sym_in"}>>
    >>,
  (* state 135, [5000] *) <<
      <<576, {"sym_identifier"}>>
    >>,
  (* state 136, [5004] *) <<
      <<578, {"sym_identifier"}>>
    >>,
  (* state 137, [5008] *) <<
      <<580, {"anon_sym_RBRACK"}>>
    >>,
  (* state 138, [5012] *) <<
      <<582, {"sym_identifier"}>>
    >>,
  (* state 139, [5016] *) <<
      <<584, {"sym_identifier"}>>
    >>,
  (* state 140, [5020] *) <<
      <<586, {"sym_identifier"}>>
    >>,
  (* state 141, [5024] *) <<
      <<588, {"sym_identifier"}>>
    >>,
  (* state 142, [5028] *) <<
      <<590, {"anon_sym_to"}>>
    >>,
  (* state 143, [5032] *) <<
      <<592, {"sym_identifier"}>>
    >>,
  (* state 144, [5036] *) <<
      <<594, {"anon_sym_endnote"}>>
    >>,
  (* state 145, [5040] *) <<
      <<596, {"sym_identifier"}>>
    >>,
  (* state 146, [5044] *) <<
      <<598, {"sym_identifier"}>>
    >>,
  (* state 147, [5048] *) <<
      <<600, {"anon_sym_as"}>>
    >>,
  (* state 148, [5052] *) <<
      <<602, {"sym_identifier"}>>
    >>,
  (* state 149, [5056] *) <<
      <<604, {"sym_identifier"}>>
    >>,
  (* state 150, [5060] *) <<
      <<606, {"anon_sym_as"}>>
    >>
  >>

\* The action macros of ts_parse_actions.
SHIFT(state_value) == [type |-> "Shift", state |-> state_value, repetition |-> FALSE]

SHIFT_REPEAT(state_value) == [type |-> "Shift", state |-> state_value, repetition |-> TRUE]

REDUCE(symbol_val, child_count_val) ==
  [type |-> "Reduce", symbol |-> symbol_val, child_count |-> child_count_val]

RECOVER == [type |-> "Recover"]

ACCEPT_INPUT == [type |-> "Accept"]

\* ts_parse_actions: indexed by entry index + 1. The slot of an entry header [i] holds the
\* actions of that entry in source order; the slots the actions themselves occupy in the
\* C array hold <<>>.
ts_parse_actions ==
  <<
  (* [0] *) <<>>,
  (* [1] *) <<RECOVER>>, <<>>,
  (* [3] *) <<REDUCE("sym_source_file", 0)>>, <<>>,
  (* [5] *) <<SHIFT(77)>>, <<>>,
  (* [7] *) <<SHIFT(55)>>, <<>>,
  (* [9] *) <<SHIFT(58)>>, <<>>,
  (* [11] *) <<SHIFT(113)>>, <<>>,
  (* [13] *) <<SHIFT(143)>>, <<>>,
  (* [15] *) <<SHIFT(141)>>, <<>>,
  (* [17] *) <<SHIFT(140)>>, <<>>,
  (* [19] *) <<SHIFT(139)>>, <<>>,
  (* [21] *) <<SHIFT(128)>>, <<>>,
  (* [23] *) <<SHIFT(136)>>, <<>>,
  (* [25] *) <<SHIFT(105)>>, <<>>,
  (* [27] *) <<SHIFT(135)>>, <<>>,
  (* [29] *) <<SHIFT(32)>>, <<>>,
  (* [31] *) <<SHIFT(26)>>, <<>>,
  (* [33] *) <<SHIFT(107)>>, <<>>,
  (* [35] *) <<SHIFT(109)>>, <<>>,
  (* [37] *) <<SHIFT(127)>>, <<>>,
  (* [39] *) <<SHIFT(112)>>, <<>>,
  (* [41] *) <<SHIFT(45)>>, <<>>,
  (* [43] *) <<SHIFT(95)>>, <<>>,
  (* [45] *) <<SHIFT(98)>>, <<>>,
  (* [47] *) <<REDUCE("sym_argument_list", 1)>>, <<>>,
  (* [49] *) <<REDUCE("sym_argument_list", 1)>>, <<>>,
  (* [51] *) <<SHIFT(101)>>, <<>>,
  (* [53] *) <<SHIFT(115)>>, <<>>,
  (* [55] *) <<SHIFT(115)>>, <<>>,
  (* [57] *) <<REDUCE("sym_call_expression", 2)>>, <<>>,
  (* [59] *) <<SHIFT(89)>>, <<>>,
  (* [61] *) <<REDUCE("sym_call_expression", 2)>>, <<>>,
  (* [63] *) <<REDUCE("sym_binary_expression", 3)>>, <<>>,
  (* [65] *) <<REDUCE("sym_binary_expression", 3)>>, <<>>,
  (* [67] *) <<REDUCE("sym_unary_expression", 2)>>, <<>>,
  (* [69] *) <<REDUCE("sym_unary_expression", 2)>>, <<>>,
  (* [71] *) <<SHIFT(111)>>, <<>>,
  (* [73] *) <<REDUCE("aux_sym_argument_list_repeat1", 2)>>, <<>>,
  (* [75] *) <<REDUCE("aux_sym_argument_list_repeat1", 2), SHIFT_REPEAT(111)>>, <<>>, <<>>,
  (* [78] *) <<REDUCE("aux_sym_argument_list_repeat1", 2)>>, <<>>,
  (* [80] *) <<REDUCE("sym_argument_list", 2)>>, <<>>,
  (* [82] *) <<REDUCE("sym_argument_list", 2)>>, <<>>,
  (* [84] *) <<REDUCE("sym_boolean", 1)>>, <<>>,
  (* [86] *) <<REDUCE("sym_boolean", 1)>>, <<>>,
  (* [88] *) <<REDUCE("sym_string", 2)>>, <<>>,
  (* [90] *) <<REDUCE("sym_string", 2)>>, <<>>,
  (* [92] *) <<SHIFT(88)>>, <<>>,
  (* [94] *) <<REDUCE("sym_index_expression", 4)>>, <<>>,
  (* [96] *) <<REDUCE("sym_index_expression", 4)>>, <<>>,
  (* [98] *) <<REDUCE("sym_list_literal", 2)>>, <<>>,
  (* [100] *) <<REDUCE("sym_list_literal", 2)>>, <<>>,
  (* [102] *) <<REDUCE("sym_parenthesized_expression", 3)>>, <<>>,
  (* [104] *) <<REDUCE("sym_parenthesized_expression", 3)>>, <<>>,
  (* [106] *) <<REDUCE("sym_with_clause", 2)>>, <<>>,
  (* [108] *) <<REDUCE("sym_with_clause", 2)>>, <<>>,
  (* [110] *) <<REDUCE("sym_list_literal", 3)>>, <<>>,
  (* [112] *) <<REDUCE("sym_list_literal", 3)>>, <<>>,
  (* [114] *) <<REDUCE("sym_string", 3)>>, <<>>,
  (* [116] *) <<REDUCE("sym_string", 3)>>, <<>>,
  (* [118] *) <<REDUCE("sym_call_expression", 3)>>, <<>>,
  (* [120] *) <<REDUCE("sym_call_expression", 3)>>, <<>>,
  (* [122] *) <<REDUCE("sym_if_statement", 2)>>, <<>>,
  (* [124] *) <<SHIFT(93)>>, <<>>,
  (* [126] *) <<SHIFT(86)>>, <<>>,
  (* [128] *) <<REDUCE("sym_if_statement", 2)>>, <<>>,
  (* [130] *) <<REDUCE("aux_sym_source_file_repeat1", 2)>>, <<>>,
  (* [132] *) <<REDUCE("aux_sym_source_file_repeat1", 2), SHIFT_REPEAT(77)>>, <<>>, <<>>,
  (* [135] *) <<REDUCE("aux_sym_source_file_repeat1", 2), SHIFT_REPEAT(55)>>, <<>>, <<>>,
  (* [138] *) <<REDUCE("aux_sym_source_file_repeat1", 2), SHIFT_REPEAT(58)>>, <<>>, <<>>,
  (* [141] *) <<REDUCE("aux_sym_source_file_repeat1", 2), SHIFT_REPEAT(113)>>, <<>>, <<>>,
  (* [144] *) <<REDUCE("aux_sym_source_file_repeat1", 2), SHIFT_REPEAT(143)>>, <<>>, <<>>,
  (* [147] *) <<REDUCE("aux_sym_source_file_repeat1", 2), SHIFT_REPEAT(141)>>, <<>>, <<>>,
  (* [150] *) <<REDUCE("aux_sym_source_file_repeat1", 2), SHIFT_REPEAT(140)>>, <<>>, <<>>,
  (* [153] *) <<REDUCE("aux_sym_source_file_repeat1", 2), SHIFT_REPEAT(139)>>, <<>>, <<>>,
  (* [156] *) <<REDUCE("aux_sym_source_file_repeat1", 2), SHIFT_REPEAT(128)>>, <<>>, <<>>,
  (* [159] *) <<REDUCE("aux_sym_source_file_repeat1", 2), SHIFT_REPEAT(136)>>, <<>>, <<>>,
  (* [162] *) <<REDUCE("aux_sym_source_file_repeat1", 2), SHIFT_REPEAT(105)>>, <<>>, <<>>,
  (* [165] *) <<REDUCE("aux_sym_source_file_repeat1", 2), SHIFT_REPEAT(135)>>, <<>>, <<>>,
  (* [168] *) <<REDUCE("aux_sym_source_file_repeat1", 2), SHIFT_REPEAT(32)>>, <<>>, <<>>,
  (* [171] *) <<REDUCE("aux_sym_source_file_repeat1", 2), SHIFT_REPEAT(25)>>, <<>>, <<>>,
  (* [174] *) <<REDUCE("aux_sym_source_file_repeat1", 2), SHIFT_REPEAT(107)>>, <<>>, <<>>,
  (* [177] *) <<REDUCE("aux_sym_source_file_repeat1", 2), SHIFT_REPEAT(109)>>, <<>>, <<>>,
  (* [180] *) <<REDUCE("aux_sym_source_file_repeat1", 2), SHIFT_REPEAT(127)>>, <<>>, <<>>,
  (* [183] *) <<REDUCE("aux_sym_source_file_repeat1", 2), SHIFT_REPEAT(112)>>, <<>>, <<>>,
  (* [186] *) <<REDUCE("aux_sym_source_file_repeat1", 2), SHIFT_REPEAT(45)>>, <<>>, <<>>,
  (* [189] *) <<REDUCE("aux_sym_source_file_repeat1", 2), SHIFT_REPEAT(95)>>, <<>>, <<>>,
  (* [192] *) <<REDUCE("aux_sym_source_file_repeat1", 2), SHIFT_REPEAT(98)>>, <<>>, <<>>,
  (* [195] *) <<REDUCE("sym_source_file", 1)>>, <<>>,
  (* [197] *) <<SHIFT(25)>>, <<>>,
  (* [199] *) <<REDUCE("sym_otherwise_if_clause", 2)>>, <<>>,
  (* [201] *) <<REDUCE("sym_otherwise_if_clause", 2)>>, <<>>,
  (* [203] *) <<REDUCE("sym_declaration", 7)>>, <<>>,
  (* [205] *) <<REDUCE("sym_declaration", 7)>>, <<>>,
  (* [207] *) <<REDUCE("sym_assignment", 4)>>, <<>>,
  (* [209] *) <<REDUCE("sym_assignment", 4)>>, <<>>,
  (* [211] *) <<REDUCE("sym_return_statement", 2)>>, <<>>,
  (* [213] *) <<REDUCE("sym_return_statement", 2)>>, <<>>,
  (* [215] *) <<REDUCE("sym_for_each_statement", 4)>>, <<>>,
  (* [217] *) <<REDUCE("sym_for_each_statement", 4)>>, <<>>,
  (* [219] *) <<REDUCE("sym_return_statement", 1)>>, <<>>,
  (* [221] *) <<SHIFT(30)>>, <<>>,
  (* [223] *) <<REDUCE("sym_return_statement", 1)>>, <<>>,
  (* [225] *) <<SHIFT(145)>>, <<>>,
  (* [227] *) <<SHIFT(30)>>, <<>>,
  (* [229] *) <<SHIFT(122)>>, <<>>,
  (* [231] *) <<SHIFT(10)>>, <<>>,
  (* [233] *) <<SHIFT(70)>>, <<>>,
  (* [235] *) <<SHIFT(114)>>, <<>>,
  (* [237] *) <<SHIFT(114)>>, <<>>,
  (* [239] *) <<SHIFT(99)>>, <<>>,
  (* [241] *) <<REDUCE("sym_declaration", 6)>>, <<>>,
  (* [243] *) <<REDUCE("sym_declaration", 6)>>, <<>>,
  (* [245] *) <<REDUCE("sym_while_statement", 2)>>, <<>>,
  (* [247] *) <<REDUCE("sym_while_statement", 2)>>, <<>>,
  (* [249] *) <<REDUCE("sym_display_statement", 2)>>, <<>>,
  (* [251] *) <<REDUCE("sym_display_statement", 2)>>, <<>>,
  (* [253] *) <<REDUCE("sym_step_def", 2)>>, <<>>,
  (* [255] *) <<SHIFT(148)>>, <<>>,
  (* [257] *) <<SHIFT(125)>>, <<>>,
  (* [259] *) <<SHIFT(119)>>, <<>>,
  (* [261] *) <<REDUCE("sym_step_def", 2)>>, <<>>,
  (* [263] *) <<REDUCE("sym_riser_def", 2)>>, <<>>,
  (* [265] *) <<REDUCE("sym_riser_def", 2)>>, <<>>,
  (* [267] *) <<REDUCE("aux_sym_step_clauses_repeat1", 2)>>, <<>>,
  (* [269] *) <<REDUCE("aux_sym_step_clauses_repeat1", 2), SHIFT_REPEAT(148)>>, <<>>, <<>>,
  (* [272] *) <<REDUCE("aux_sym_step_clauses_repeat1", 2), SHIFT_REPEAT(125)>>, <<>>, <<>>,
  (* [275] *) <<REDUCE("aux_sym_step_clauses_repeat1", 2), SHIFT_REPEAT(119)>>, <<>>, <<>>,
  (* [278] *) <<REDUCE("aux_sym_step_clauses_repeat1", 2)>>, <<>>,
  (* [280] *) <<REDUCE("sym_step_clauses", 1)>>, <<>>,
  (* [282] *) <<REDUCE("sym_step_clauses", 1)>>, <<>>,
  (* [284] *) <<REDUCE("sym_parameter_list", 1)>>, <<>>,
  (* [286] *) <<SHIFT(126)>>, <<>>,
  (* [288] *) <<REDUCE("sym_parameter_list", 1)>>, <<>>,
  (* [290] *) <<REDUCE("sym_if_statement", 3)>>, <<>>,
  (* [292] *) <<REDUCE("aux_sym_parameter_list_repeat1", 2)>>, <<>>,
  (* [294] *) <<REDUCE("aux_sym_parameter_list_repeat1", 2), SHIFT_REPEAT(126)>>, <<>>, <<>>,
  (* [297] *) <<REDUCE("aux_sym_parameter_list_repeat1", 2)>>, <<>>,
  (* [299] *) <<REDUCE("sym_parameter_list", 2)>>, <<>>,
  (* [301] *) <<REDUCE("sym_parameter_list", 2)>>, <<>>,
  (* [303] *) <<REDUCE("sym_attempt_statement", 1)>>, <<>>,
  (* [305] *) <<REDUCE("sym_attempt_statement", 1)>>, <<>>,
  (* [307] *) <<SHIFT(61)>>, <<>>,
  (* [309] *) <<SHIFT(64)>>, <<>>,
  (* [311] *) <<REDUCE("sym_type", 1)>>, <<>>,
  (* [313] *) <<REDUCE("sym_type", 1)>>, <<>>,
  (* [315] *) <<REDUCE("sym_parameter", 3)>>, <<>>,
  (* [317] *) <<REDUCE("sym_parameter", 3)>>, <<>>,
  (* [319] *) <<REDUCE("sym_call_statement", 2)>>, <<>>,
  (* [321] *) <<SHIFT(87)>>, <<>>,
  (* [323] *) <<SHIFT(130)>>, <<>>,
  (* [325] *) <<REDUCE("aux_sym_if_statement_repeat1", 2)>>, <<>>,
  (* [327] *) <<REDUCE("aux_sym_if_statement_repeat1", 2), SHIFT_REPEAT(93)>>, <<>>, <<>>,
  (* [330] *) <<REDUCE("aux_sym_if_statement_repeat1", 2)>>, <<>>,
  (* [332] *) <<REDUCE("sym_expects_clause", 2)>>, <<>>,
  (* [334] *) <<REDUCE("sym_expects_clause", 2)>>, <<>>,
  (* [336] *) <<REDUCE("sym_returns_clause", 2)>>, <<>>,
  (* [338] *) <<REDUCE("sym_returns_clause", 2)>>, <<>>,
  (* [340] *) <<REDUCE("sym_belongs_clause", 2)>>, <<>>,
  (* [342] *) <<REDUCE("sym_belongs_clause", 2)>>, <<>>,
  (* [344] *) <<REDUCE("sym_section_marker", 1)>>, <<>>,
  (* [346] *) <<SHIFT(132)>>, <<>>,
  (* [348] *) <<SHIFT(131)>>, <<>>,
  (* [350] *) <<REDUCE("sym_section_marker", 1)>>, <<>>,
  (* [352] *) <<REDUCE("sym_attempt_statement", 2)>>, <<>>,
  (* [354] *) <<REDUCE("sym_call_statement", 3)>>, <<>>,
  (* [356] *) <<REDUCE("sym_comment", 1)>>, <<>>,
  (* [358] *) <<REDUCE("sym_comment", 1)>>, <<>>,
  (* [360] *) <<SHIFT(72)>>, <<>>,
  (* [362] *) <<REDUCE("sym_declaration", 4)>>, <<>>,
  (* [364] *) <<SHIFT(103)>>, <<>>,
  (* [366] *) <<REDUCE("sym_if_unsuccessful_clause", 1)>>, <<>>,
  (* [368] *) <<REDUCE("sym_declaration", 5)>>, <<>>,
  (* [370] *) <<SHIFT(108)>>, <<>>,
  (* [372] *) <<REDUCE("sym_then_continue_clause", 1)>>, <<>>,
  (* [374] *) <<REDUCE("sym_call_statement", 4)>>, <<>>,
  (* [376] *) <<REDUCE("sym_if_statement", 4)>>, <<>>,
  (* [378] *) <<REDUCE("sym_structure_definition", 1)>>, <<>>,
  (* [380] *) <<REDUCE("sym_step_def", 3)>>, <<>>,
  (* [382] *) <<REDUCE("sym_riser_def", 3)>>, <<>>,
  (* [384] *) <<SHIFT(24)>>, <<>>,
  (* [386] *) <<SHIFT(146)>>, <<>>,
  (* [388] *) <<SHIFT(24)>>, <<>>,
  (* [390] *) <<SHIFT(15)>>, <<>>,
  (* [392] *) <<REDUCE("sym_block_comment", 3)>>, <<>>,
  (* [394] *) <<REDUCE("sym_comment", 2)>>, <<>>,
  (* [396] *) <<REDUCE("sym_add_statement", 4)>>, <<>>,
  (* [398] *) <<REDUCE("sym_storing_clause", 2)>>, <<>>,
  (* [400] *) <<REDUCE("sym_remove_statement", 4)>>, <<>>,
  (* [402] *) <<REDUCE("sym_block_comment", 2)>>, <<>>,
  (* [404] *) <<REDUCE("sym_input_statement", 2)>>, <<>>,
  (* [406] *) <<REDUCE("sym_attempt_statement", 3)>>, <<>>,
  (* [408] *) <<REDUCE("sym_repeat_statement", 3)>>, <<>>,
  (* [410] *) <<REDUCE("sym_floor_def", 2)>>, <<>>,
  (* [412] *) <<REDUCE("sym_building_def", 2)>>, <<>>,
  (* [414] *) <<REDUCE("sym_otherwise_clause", 1)>>, <<>>,
  (* [416] *) <<SHIFT(6)>>, <<>>,
  (* [418] *) <<SHIFT(6)>>, <<>>,
  (* [420] *) <<SHIFT(2)>>, <<>>,
  (* [422] *) <<SHIFT(2)>>, <<>>,
  (* [424] *) <<SHIFT(29)>>, <<>>,
  (* [426] *) <<SHIFT(29)>>, <<>>,
  (* [428] *) <<SHIFT(16)>>, <<>>,
  (* [430] *) <<SHIFT(21)>>, <<>>,
  (* [432] *) <<SHIFT(21)>>, <<>>,
  (* [434] *) <<SHIFT(27)>>, <<>>,
  (* [436] *) <<SHIFT(27)>>, <<>>,
  (* [438] *) <<SHIFT(31)>>, <<>>,
  (* [440] *) <<SHIFT(31)>>, <<>>,
  (* [442] *) <<SHIFT(106)>>, <<>>,
  (* [444] *) <<SHIFT(106)>>, <<>>,
  (* [446] *) <<SHIFT(4)>>, <<>>,
  (* [448] *) <<SHIFT(4)>>, <<>>,
  (* [450] *) <<SHIFT(5)>>, <<>>,
  (* [452] *) <<SHIFT(5)>>, <<>>,
  (* [454] *) <<SHIFT(110)>>, <<>>,
  (* [456] *) <<SHIFT(110)>>, <<>>,
  (* [458] *) <<SHIFT(91)>>, <<>>,
  (* [460] *) <<SHIFT(91)>>, <<>>,
  (* [462] *) <<SHIFT(13)>>, <<>>,
  (* [464] *) <<SHIFT(100)>>, <<>>,
  (* [466] *) <<SHIFT(100)>>, <<>>,
  (* [468] *) <<SHIFT(22)>>, <<>>,
  (* [470] *) <<SHIFT(22)>>, <<>>,
  (* [472] *) <<SHIFT(33)>>, <<>>,
  (* [474] *) <<SHIFT(33)>>, <<>>,
  (* [476] *) <<SHIFT(83)>>, <<>>,
  (* [478] *) <<SHIFT(35)>>, <<>>,
  (* [480] *) <<SHIFT(35)>>, <<>>,
  (* [482] *) <<SHIFT(138)>>, <<>>,
  (* [484] *) <<SHIFT(23)>>, <<>>,
  (* [486] *) <<SHIFT(23)>>, <<>>,
  (* [488] *) <<SHIFT(28)>>, <<>>,
  (* [490] *) <<SHIFT(28)>>, <<>>,
  (* [492] *) <<SHIFT(104)>>, <<>>,
  (* [494] *) <<SHIFT(104)>>, <<>>,
  (* [496] *) <<SHIFT(149)>>, <<>>,
  (* [498] *) <<SHIFT(9)>>, <<>>,
  (* [500] *) <<SHIFT(9)>>, <<>>,
  (* [502] *) <<SHIFT(34)>>, <<>>,
  (* [504] *) <<SHIFT(34)>>, <<>>,
  (* [506] *) <<SHIFT(79)>>, <<>>,
  (* [508] *) <<SHIFT(117)>>, <<>>,
  (* [510] *) <<SHIFT(117)>>, <<>>,
  (* [512] *) <<REDUCE("sym_unary_operator", 1)>>, <<>>,
  (* [514] *) <<REDUCE("sym_unary_operator", 1)>>, <<>>,
  (* [516] *) <<REDUCE("sym_binary_operator", 1)>>, <<>>,
  (* [518] *) <<REDUCE("sym_binary_operator", 1)>>, <<>>,
  (* [520] *) <<REDUCE("aux_sym_block_comment_content_repeat1", 2)>>, <<>>,
  (* [522] *) <<REDUCE("aux_sym_block_comment_content_repeat1", 2), SHIFT_REPEAT(116)>>, <<>>, <<>>,
  (* [525] *) <<REDUCE("aux_sym_block_comment_content_repeat1", 2), SHIFT_REPEAT(116)>>, <<>>, <<>>,
  (* [528] *) <<REDUCE("sym_block_comment_content", 1)>>, <<>>,
  (* [530] *) <<SHIFT(116)>>, <<>>,
  (* [532] *) <<SHIFT(116)>>, <<>>,
  (* [534] *) <<SHIFT(60)>>, <<>>,
  (* [536] *) <<SHIFT(46)>>, <<>>,
  (* [538] *) <<SHIFT(11)>>, <<>>,
  (* [540] *) <<SHIFT(124)>>, <<>>,
  (* [542] *) <<SHIFT(124)>>, <<>>,
  (* [544] *) <<REDUCE("aux_sym_string_content_repeat1", 2)>>, <<>>,
  (* [546] *) <<REDUCE("aux_sym_string_content_repeat1", 2), SHIFT_REPEAT(123)>>, <<>>, <<>>,
  (* [549] *) <<REDUCE("aux_sym_string_content_repeat1", 2), SHIFT_REPEAT(123)>>, <<>>, <<>>,
  (* [552] *) <<REDUCE("sym_string_content", 1)>>, <<>>,
  (* [554] *) <<SHIFT(123)>>, <<>>,
  (* [556] *) <<SHIFT(123)>>, <<>>,
  (* [558] *) <<SHIFT(147)>>, <<>>,
  (* [560] *) <<SHIFT(134)>>, <<>>,
  (* [562] *) <<SHIFT(142)>>, <<>>,
  (* [564] *) <<ACCEPT_INPUT>>, <<>>,
  (* [566] *) <<SHIFT(76)>>, <<>>,
  (* [568] *) <<SHIFT(150)>>, <<>>,
  (* [570] *) <<SHIFT(118)>>, <<>>,
  (* [572] *) <<SHIFT(19)>>, <<>>,
  (* [574] *) <<SHIFT(94)>>, <<>>,
  (* [576] *) <<SHIFT(81)>>, <<>>,
  (* [578] *) <<SHIFT(50)>>, <<>>,
  (* [580] *) <<SHIFT(18)>>, <<>>,
  (* [582] *) <<SHIFT(73)>>, <<>>,
  (* [584] *) <<SHIFT(37)>>, <<>>,
  (* [586] *) <<SHIFT(36)>>, <<>>,
  (* [588] *) <<SHIFT(84)>>, <<>>,
  (* [590] *) <<SHIFT(90)>>, <<>>,
  (* [592] *) <<SHIFT(85)>>, <<>>,
  (* [594] *) <<SHIFT(71)>>, <<>>,
  (* [596] *) <<SHIFT(12)>>, <<>>,
  (* [598] *) <<SHIFT(3)>>, <<>>,
  (* [600] *) <<SHIFT(121)>>, <<>>,
  (* [602] *) <<SHIFT(54)>>, <<>>,
  (* [604] *) <<SHIFT(78)>>, <<>>,
  (* [606] *) <<SHIFT(120)>>, <<>>
  >>

(***************************************************************************)
(* Characters                                                              *)
(***************************************************************************)

\* The printable ASCII characters in code order: ' ' (32) to '_' (95), and
\* 'a' (97) to '~' (126).
PrintableLow == " !\"#$%&'()*+,-./0123456789:;<=>?@ABCDEFGHIJKLMNOPQRSTUVWXYZ[\\]^_"

PrintableHigh == "abcdefghijklmnopqrstuvwxyz{|}~"

\* lexer->lookahead of a one-character string: its code point.
CharCode ==
  [c \in {SubSeq(PrintableLow, i, i) : i \in 1..Len(PrintableLow)}
         \cup {SubSeq(PrintableHigh, i, i) : i \in 1..Len(PrintableHigh)}
         \cup {"\n", "\t", "\r"} |->
     IF c = "\n" THEN 10
     ELSE IF c = "\t" THEN 9
     ELSE IF c = "\r" THEN 13
     ELSE IF \E i \in 1..Len(PrintableLow) : SubSeq(PrintableLow, i, i) = c
       THEN 31 + (CHOOSE i \in 1..Len(PrintableLow) : SubSeq(PrintableLow, i, i) = c)
     ELSE 96 + (CHOOSE i \in 1..Len(PrintableHigh) : SubSeq(PrintableHigh, i, i) = c)]

Min(S) == CHOOSE x \in S : \A y \in S : x <= y

\* The character at offset p of text, 0 at and past its end (lexer->eof).
LookaheadAt(text, p) ==
  IF p >= Len(text) THEN 0 ELSE CharCode[SubSeq(text, p + 1, p + 1)]

(***************************************************************************)
(* The lexer                                                               *)
(***************************************************************************)

\* The element of a one-element set.  {F(x) : x \in {v}} holds F of the value
\* of v, the value of v taken once.
TheOne(S) == CHOOSE r \in S : TRUE

\* LexerStep ending the token as soon as `is less than` or `is greater than`
\* is accepted, without reading on for a longer phrase.
LexerStep_StopsAtComparison(states, text, at) ==
  IF states[at.state + 1].accept \in {"anon_sym_islessthan", "anon_sym_isgreaterthan"}
    THEN [at EXCEPT !.state = -1, !.symbol = states[at.state + 1].accept,
                    !.end = at.current]
  ELSE
    LET s       == states[at.state + 1]
        p       == at.current
        accepts == s.accept # ""
        sym     == IF accepts THEN s.accept ELSE at.symbol
        end     == IF accepts THEN p ELSE at.end
        eof     == p >= Len(text)
        c       == LookaheadAt(text, p)
        hits    == {i \in DOMAIN s.tr : s.tr[i][1] <= c /\ c <= s.tr[i][2]}
        t       == s.tr[Min(hits)]
        p2      == IF eof THEN p ELSE p + 1
    IN  IF eof /\ s.eof >= 0
          THEN [at EXCEPT !.state = s.eof, !.symbol = sym, !.end = end]
        ELSE IF hits = {}
          THEN [at EXCEPT !.state = -1, !.symbol = sym, !.end = end]
        ELSE [state |-> t[3], current |-> p2, start |-> IF t[4] THEN p2 ELSE at.start,
              symbol |-> sym, end |-> end]

\* LexerStep taking any character after the backslash of an escape: where the
\* tests of a state all lead to the state that accepts escape_sequence and none
\* matches, the character is read all the same.
LexerStep_AnyEscape(states, text, at) ==
  LET s       == states[at.state + 1]
      p       == at.current
      accepts == s.accept # ""
      sym     == IF accepts THEN s.accept ELSE at.symbol
      end     == IF accepts THEN p ELSE at.end
      eof     == p >= Len(text)
      c       == LookaheadAt(text, p)
      hits    == {i \in DOMAIN s.tr : s.tr[i][1] <= c /\ c <= s.tr[i][2]}
      t       == s.tr[Min(hits)]
      p2      == IF eof THEN p ELSE p + 1
      escapes == s.tr # <<>> /\ \A i \in DOMAIN s.tr :
                   states[s.tr[i][3] + 1].accept = "sym_escape_sequence"
  IN  IF eof /\ s.eof >= 0
        THEN [at EXCEPT !.state = s.eof, !.symbol = sym, !.end = end]
      ELSE IF hits = {} /\ escapes /\ ~eof
        THEN [state |-> s.tr[1][3], current |-> p2, start |-> at.start,
              symbol |-> sym, end |-> end]
      ELSE IF hits = {}
        THEN [at EXCEPT !.state = -1, !.symbol = sym, !.end = end]
      ELSE [state |-> t[3], current |-> p2, start |-> IF t[4] THEN p2 ELSE at.start,
            symbol |-> sym, end |-> end]

\* LexerStep taking the dot after the digits of a number into the token when
\* no digit follows it: the state after the dot, which accepts nothing, ends
\* the number where it stands.
LexerStep_DotEndsNumber(states, text, at) ==
  LET s       == states[at.state + 1]
      p       == at.current
      accepts == s.accept # ""
      sym     == IF accepts THEN s.accept ELSE at.symbol
      end     == IF accepts THEN p ELSE at.end
      eof     == p >= Len(text)
      c       == LookaheadAt(text, p)
      hits    == {i \in DOMAIN s.tr : s.tr[i][1] <= c /\ c <= s.tr[i][2]}
      t       == s.tr[Min(hits)]
      p2      == IF eof THEN p ELSE p + 1
  IN  IF eof /\ s.eof >= 0
        THEN [at EXCEPT !.state = s.eof, !.symbol = sym, !.end = end]
      ELSE IF hits = {}
        THEN [at EXCEPT !.state = -1, !.symbol = sym,
                        !.end = IF ~accepts /\ at.symbol = "sym_number" THEN p ELSE end]
      ELSE [state |-> t[3], current |-> p2, start |-> IF t[4] THEN p2 ELSE at.start,
            symbol |-> sym, end |-> end]

\* LexerStep reading on from `-` into the digits of a number wherever a digit
\* follows: the state that accepts the operator `-` goes to the state of the
\* digits of a number (439) as the state after the `-` of a negative number
\* (254) does.
LexerStep_DashTakesDigits(states, text, at) ==
  LET s       == states[at.state + 1]
      p       == at.current
      accepts == s.accept # ""
      sym     == IF accepts THEN s.accept ELSE at.symbol
      end     == IF accepts THEN p ELSE at.end
      eof     == p >= Len(text)
      c       == LookaheadAt(text, p)
      hits    == {i \in DOMAIN s.tr : s.tr[i][1] <= c /\ c <= s.tr[i][2]}
      t       == s.tr[Min(hits)]
      p2      == IF eof THEN p ELSE p + 1
  IN  IF eof /\ s.eof >= 0
        THEN [at EXCEPT !.state = s.eof, !.symbol = sym, !.end = end]
      ELSE IF s.accept = "anon_sym_DASH" /\ 48 <= c /\ c <= 57
        THEN [state |-> 439, current |-> p2, start |-> at.start, symbol |-> sym, end |-> end]
      ELSE IF hits = {}
        THEN [at EXCEPT !.state = -1, !.symbol = sym, !.end = end]
      ELSE [state |-> t[3], current |-> p2, start |-> IF t[4] THEN p2 ELSE at.start,
            symbol |-> sym, end |-> end]

\* LexerStep reading a carriage return as it reads a space: skipped where a
\* space is skipped.
LexerStep_SkipsCarriageReturn(states, text, at) ==
  LET s       == states[at.state + 1]
      p       == at.current
      accepts == s.accept # ""
      sym     == IF accepts THEN s.accept ELSE at.symbol
      end     == IF accepts THEN p ELSE at.end
      eof     == p >= Len(text)
      c       == IF LookaheadAt(text, p) = 13 THEN 32 ELSE LookaheadAt(text, p)
      hits    == {i \in DOMAIN s.tr : s.tr[i][1] <= c /\ c <= s.tr[i][2]}
      t       == s.tr[Min(hits)]
      p2      == IF eof THEN p ELSE p + 1
  IN  IF eof /\ s.eof >= 0
        THEN [at EXCEPT !.state = s.eof, !.symbol = sym, !.end = end]
      ELSE IF hits = {}
        THEN [at EXCEPT !.state = -1, !.symbol = sym, !.end = end]
      ELSE [state |-> t[3], current |-> p2, start |-> IF t[4] THEN p2 ELSE at.start,
            symbol |-> sym, end |-> end]

\* One step of a generated lex function in lexer state `at.state` at offset
\* `at.current`: ACCEPT_TOKEN (result_symbol and mark_end), then the eof test,
\* then the character tests in order (the first that matches wins), END_STATE
\* otherwise.  SKIP moves the token start past the skipped character.
LexerStep(states, text, at) ==
  LET s       == states[at.state + 1]
      p       == at.current
      accepts == s.accept # ""
      sym     == IF accepts THEN s.accept ELSE at.symbol
      end     == IF accepts THEN p ELSE at.end
      eof     == p >= Len(text)
      c       == LookaheadAt(text, p)
      hits    == {i \in DOMAIN s.tr : s.tr[i][1] <= c /\ c <= s.tr[i][2]}
      t       == s.tr[Min(hits)]
      p2      == IF eof THEN p ELSE p + 1
  IN  IF eof /\ s.eof >= 0
        THEN [at EXCEPT !.state = s.eof, !.symbol = sym, !.end = end]
      ELSE IF hits = {}
        THEN [at EXCEPT !.state = -1, !.symbol = sym, !.end = end]
      ELSE [state |-> t[3], current |-> p2, start |-> IF t[4] THEN p2 ELSE at.start,
            symbol |-> sym, end |-> end]

\* The run of a lex function to its END_STATE: the last accepted symbol ("" if
\* none), the token's span and the offset reached.
RECURSIVE RunLexer(_, _, _)
RunLexer(states, text, at) ==
  IF at.state = -1
    THEN [symbol |-> at.symbol, start |-> at.start, end |-> at.end, current |-> at.current]
    ELSE TheOne({RunLexer(states, text, next) : next \in {LexerStep(states, text, at)}})

\* START_LEXER: the run starts at offset p with no result.
StartLexer(state, p) ==
  [state |-> state, current |-> p, start |-> p, symbol |-> "", end |-> p]

ts_lex(text, state, p) == RunLexer(ts_lex_states, text, StartLexer(state, p))

ts_lex_keywords(text, p) == RunLexer(ts_lex_keywords_states, text, StartLexer(0, p))

(***************************************************************************)
(* Table lookup                                                            *)
(***************************************************************************)

ERROR_STATE == 0

\* The symbol of the ERROR token and node (ts_builtin_sym_error).
ts_builtin_sym_error == "ERROR"

\* The table value of (state, symbol), 0 when the row has no entry: a row of
\* ts_parse_table for a large state, else the first group of the state's row of
\* ts_small_parse_table that lists the symbol.
ts_lookup(state, symbol) ==
  IF state < LARGE_STATE_COUNT
    THEN LET hits == {e \in ts_parse_table[state + 1] : e[1] = symbol}
         IN  IF hits = {} THEN 0 ELSE (CHOOSE e \in hits : TRUE)[2]
    ELSE LET row  == ts_small_parse_table[state - LARGE_STATE_COUNT + 1]
             hits == {i \in DOMAIN row : symbol \in row[i][2]}
         IN  IF hits = {} THEN 0 ELSE row[Min(hits)][1]

\* ts_table_entry with the row of ERROR_STATE missing its entry for identifiers.
ts_table_entry_NoRecoverForIdentifier(state, symbol) ==
  IF symbol = ts_builtin_sym_error \/ (state = ERROR_STATE /\ symbol = "sym_identifier")
    THEN <<>>
    ELSE ts_parse_actions[ts_lookup(state, symbol) + 1]

\* The keywords that open the clauses of a step or riser header.
ClauseKeywords ==
  {"anon_sym_belongsto_COLON", "anon_sym_expects_COLON", "anon_sym_returns_COLON"}

\* ts_table_entry with the name after `building:` and `floor:` (states 143 and
\* 141) shifted to the state the name after `step:` is shifted to (from state
\* 140), where clauses may follow.
ts_table_entry_StructureNameAsStepName(state, symbol) ==
  IF symbol = ts_builtin_sym_error THEN <<>>
  ELSE IF state \in {141, 143} /\ symbol = "sym_identifier"
    THEN ts_parse_actions[ts_lookup(140, symbol) + 1]
  ELSE ts_parse_actions[ts_lookup(state, symbol) + 1]

\* ts_table_entry with the clause keywords shifted where a statement may start
\* (states 1, 25 and 26) as they are after the name of a step (state 36).
ts_table_entry_ClauseStartsStatement(state, symbol) ==
  IF symbol = ts_builtin_sym_error THEN <<>>
  ELSE IF state \in {1, 25, 26} /\ symbol \in ClauseKeywords
    THEN ts_parse_actions[ts_lookup(36, symbol) + 1]
  ELSE ts_parse_actions[ts_lookup(state, symbol) + 1]

\* ts_table_entry with a name where a type is expected (states 118 to 121,
\* after `as` and `returns:`) taken as the type `number` is.
ts_table_entry_NameAsNumberType(state, symbol) ==
  IF symbol = ts_builtin_sym_error THEN <<>>
  ELSE IF state \in 118..121 /\ symbol = "sym_identifier"
    THEN ts_parse_actions[ts_lookup(state, "anon_sym_number") + 1]
  ELSE ts_parse_actions[ts_lookup(state, symbol) + 1]

\* ts_table_entry with the end of the input accepted in every state: where
\* a state has no entry for the end token, the entry is ACCEPT_INPUT, as it is
\* after a whole source_file.
ts_table_entry_EndAcceptsAnywhere(state, symbol) ==
  IF symbol = ts_builtin_sym_error THEN <<>>
  ELSE IF /\ symbol = "ts_builtin_sym_end"
          /\ state # ERROR_STATE
          /\ ts_lookup(state, symbol) = 0
    THEN <<ACCEPT_INPUT>>
  ELSE ts_parse_actions[ts_lookup(state, symbol) + 1]

\* The tokens a statement, a definition or a comment starts with.
StatementKeywords ==
  {"anon_sym_do_COLON", "anon_sym_declare_COLON", "anon_sym_note_COLON",
   "anon_sym_noteblock_COLON", "anon_sym_building_COLON", "anon_sym_floor_COLON",
   "anon_sym_step_COLON", "anon_sym_riser_COLON", "anon_sym_set", "anon_sym_call",
   "anon_sym_display", "anon_sym_input", "anon_sym_return", "sym_exit_statement",
   "anon_sym_if", "anon_sym_repeat", "anon_sym_foreach", "anon_sym_while",
   "anon_sym_attempt_COLON", "anon_sym_add", "anon_sym_remove"}

\* ts_table_entry with a statement keyword given an action only where an item
\* of the source file may start (states 1, 25 and 26): inside a statement the
\* keyword reduces nothing, the statement has to end with a newline or with
\* the text.
ts_table_entry_StatementNeedsNewline(state, symbol) ==
  IF symbol = ts_builtin_sym_error THEN <<>>
  ELSE IF state \notin {1, 25, 26} /\ symbol \in StatementKeywords
    THEN <<>>
  ELSE ts_parse_actions[ts_lookup(state, symbol) + 1]

\* ts_table_entry with `declare:` (state 55) shifted over what follows it as
\* it is over a name: whatever comes after `declare:` is taken for the name of
\* a declaration.
ts_table_entry_DeclareTakesAnyName(state, symbol) ==
  IF symbol = ts_builtin_sym_error THEN <<>>
  ELSE IF state = 55 /\ symbol \notin {"sym_identifier", "anon_sym_fixed"}
    THEN ts_parse_actions[ts_lookup(55, "sym_identifier") + 1]
  ELSE ts_parse_actions[ts_lookup(state, symbol) + 1]

\* The parse actions of a terminal in a state, in source order.  The ERROR
\* token has none in any state.
ts_table_entry(state, symbol) ==
  IF symbol = ts_builtin_sym_error THEN <<>>
  ELSE ts_parse_actions[ts_lookup(state, symbol) + 1]

BinaryOperatorSymbols ==
  {"anon_sym_PLUS", "anon_sym_DASH", "anon_sym_STAR", "anon_sym_SLASH", "anon_sym_isequalto",
   "anon_sym_equals", "anon_sym_isnotequalto", "anon_sym_islessthan", "anon_sym_isgreaterthan",
   "anon_sym_islessthanorequalto", "anon_sym_isgreaterthanorequalto", "anon_sym_and",
   "anon_sym_or", "anon_sym_addedto", "anon_sym_contains", "anon_sym_startswith",
   "anon_sym_endswith", "anon_sym_isin"}

\* ParseActions with the conflict after `unary_operator _expression` (states 5
\* and 22) resolved the other way: a binary operator is shifted, as state 35
\* shifts it, rather than the unary expression reduced.
ParseActions_UnaryShiftsOperator(state, symbol) ==
  IF state \in {5, 22} /\ symbol \in BinaryOperatorSymbols
    THEN {SHIFT(115)}
    ELSE LET entry == ts_table_entry(state, symbol)
             kept  == {i \in DOMAIN entry :
                         ~(entry[i].type = "Shift" /\ entry[i].repetition)}
         IN  {entry[i] : i \in kept}

\* ParseActions with the conflict after `_expression binary_operator
\* _expression` (state 21) resolved the other way: a binary operator is
\* shifted rather than the binary expression reduced.
ParseActions_BinaryShiftsOperator(state, symbol) ==
  IF state = 21 /\ symbol \in BinaryOperatorSymbols
    THEN {SHIFT(115)}
    ELSE LET entry == ts_table_entry(state, symbol)
             kept  == {i \in DOMAIN entry :
                         ~(entry[i].type = "Shift" /\ entry[i].repetition)}
         IN  {entry[i] : i \in kept}

\* ParseActions with `[` after the operand of an operator (states 5, 22 and
\* 21) treated as a binary operator is: the expression is reduced before the
\* index is read.
ParseActions_IndexAfterOperator(state, symbol) ==
  LET entry == ts_table_entry(state,
                 IF state \in {5, 22, 21} /\ symbol = "anon_sym_LBRACK"
                   THEN "anon_sym_PLUS" ELSE symbol)
      kept  == {i \in DOMAIN entry :
                  ~(entry[i].type = "Shift" /\ entry[i].repetition)}
  IN  {entry[i] : i \in kept}

\* ParseActions with `,` after the first argument of a nested call (state 2)
\* shifted as it is after the first argument of a list or of a call statement
\* (state 6), rather than the argument list reduced.
ParseActions_NestedCallTakesComma(state, symbol) ==
  LET entry == ts_table_entry(IF state = 2 /\ symbol = "anon_sym_COMMA" THEN 6 ELSE state,
                              symbol)
      kept  == {i \in DOMAIN entry :
                  ~(entry[i].type = "Shift" /\ entry[i].repetition)}
  IN  {entry[i] : i \in kept}

\* The actions the parser acts on: a SHIFT_REPEAT is left to the reduction
\* listed before it.
ParseActions(state, symbol) ==
  LET entry == ts_table_entry(state, symbol)
      kept  == {i \in DOMAIN entry :
                  ~(entry[i].type = "Shift" /\ entry[i].repetition)}
  IN  {entry[i] : i \in kept}

ts_language_has_actions(state, symbol) == ts_table_entry(state, symbol) # <<>>

\* The state after a non-terminal: STATE(..) of the row.
ts_language_next_state(state, symbol) == ts_lookup(state, symbol)

(***************************************************************************)
(* Tokens and nodes                                                        *)
(***************************************************************************)

NoNode == [symbol |-> "", start |-> 0, end |-> 0, children |-> <<>>]

Leaf(symbol, start, end) ==
  [symbol |-> symbol, start |-> start, end |-> end, children |-> <<>>]

NoToken == [symbol |-> "", start |-> 0, end |-> 0, is_keyword |-> FALSE]

keyword_capture_token == "sym_identifier"

\* Skipping what cannot be lexed: from offset p on, a character at a time (or
\* as far as the failed attempt read), until the error lex mode finds a token or
\* the text ends.  The result is the end of the skipped stretch.
RECURSIVE SkipUnlexable(_, _)
SkipUnlexable(text, p) ==
  TheOne({IF r.symbol # "" THEN p
          ELSE IF r.current = p
            THEN (IF p >= Len(text) THEN p ELSE SkipUnlexable(text, p + 1))
          ELSE SkipUnlexable(text, r.current) :
          r \in {ts_lex(text, ts_lex_modes[ERROR_STATE + 1], p)}})

Token(symbol, start, end, is_keyword) ==
  [symbol |-> symbol, start |-> start, end |-> end, is_keyword |-> is_keyword]

\* The ERROR token over the characters no lex mode can lex, given the failed
\* run of the error mode.
ErrorToken(text, failed) ==
  Token(ts_builtin_sym_error, failed.start,
        IF failed.current = failed.start
          THEN (IF failed.start >= Len(text) THEN failed.start
                ELSE SkipUnlexable(text, failed.start + 1))
        ELSE SkipUnlexable(text, failed.current),
        FALSE)

\* The token of a successful run.  An identifier is handed to the keyword lexer
\* and becomes the keyword when the keyword spans the whole identifier and has
\* an action in the parse state.
FoundToken(text, parse_state, r) ==
  IF r.symbol # keyword_capture_token THEN Token(r.symbol, r.start, r.end, FALSE)
  ELSE TheOne({IF k.symbol # "" /\ k.end = r.end
                  /\ ts_language_has_actions(parse_state, k.symbol)
                 THEN Token(k.symbol, r.start, r.end, TRUE)
                 ELSE Token(r.symbol, r.start, r.end, FALSE) :
               k \in {ts_lex_keywords(text, r.start)}})

\* The token after a failed run of the state's lex mode: the error mode's
\* (lex state 0), or an ERROR token if that finds nothing either.
ErrorModeToken(text, parse_state, p) ==
  TheOne({IF second.symbol # "" THEN FoundToken(text, parse_state, second)
          ELSE ErrorToken(text, second) :
          second \in {ts_lex(text, ts_lex_modes[ERROR_STATE + 1], p)}})

\* The next token for a parse state: the main lex function in the state's lex
\* mode, then in the error mode if that finds nothing.
ts_parser_lex(text, parse_state, p) ==
  TheOne({IF first.symbol # "" THEN FoundToken(text, parse_state, first)
          ELSE ErrorModeToken(text, parse_state, p) :
          first \in {ts_lex(text, ts_lex_modes[parse_state + 1], p)}})

(***************************************************************************)
(* Sources                                                                 *)
(***************************************************************************)

\* The longest phrase, in words.
MaxWords == 3

Vocabulary == {"display", "a", "+", "not", "return", "for each", "\n"}

\* Every text of at most n words of the vocabulary, separated by one space.
RECURSIVE Phrases(_)
Phrases(n) ==
  IF n = 0 THEN {""}
  ELSE LET shorter == Phrases(n - 1)
       IN  shorter \cup {p \o (IF p = "" THEN "" ELSE " ") \o w :
                           p \in shorter, w \in Vocabulary}

\* The spellings of the unary and of the binary operators.
UnaryOperatorWords == {"not", "length of"}

BinaryOperatorWords ==
  {"+", "-", "*", "/", "is equal to", "equals", "is not equal to", "is less than",
   "is greater than", "is less than or equal to", "is greater than or equal to", "and", "or",
   "added to", "contains", "starts with", "ends with", "is in"}

\* A unary operator applied to `a`, followed by a binary operator and `b`.
UnaryThenBinary ==
  {"display " \o u \o " a " \o b \o " b" : u \in UnaryOperatorWords, b \in BinaryOperatorWords}

\* Programs the properties below are stated on.
Programs ==
  {"display 2 + 3 * 4",
   "display not a is equal to b",
   "building: Foo\nfloor: Bar\nbuilding: Baz",
   "if A: display 1 otherwise if B: display 2 otherwise: display 3",
   "display \"abc\ndisplay 1",
   "display for each",
   "for each x in xs",
   "set x to 1",
   "x = 1",
   "step: S\ndisplay 1",
   "if a: display 1",
   "repeat 2 times: display 1",
   "for each x in xs: display 1",
   "while a: display 1"}

\* Call statements, calls in expressions and attempt statements.
CallPrograms ==
  {"call f with (1, 2)",
   "call f with (1, 2) storing result in r",
   "call f with 1, 2 storing result in r",
   "display f(1)",
   "set x to f(1)",
   "display call f",
   "set x to call f with 1"}

AttemptPrograms ==
  {"attempt: if unsuccessful:",
   "attempt: if unsuccessful: then continue:",
   "attempt: then continue:",
   "attempt:"}

\* Structure headers and the clauses that may follow a header.
HeaderWords == {"step: S", "riser: R", "floor: F", "building: B"}

ClauseWords == {"belongs to: F", "expects: x as number", "returns: number"}

\* A header with one clause right after it, a header with all three, and a
\* clause after a statement of the body.
HeaderThenClause == {h \o " " \o c : h \in HeaderWords, c \in ClauseWords}

ClauseAfterBody ==
  {h \o "\ndisplay 1\n" \o c : h \in {"step: S", "riser: R"}, c \in ClauseWords}

ClausePrograms ==
  HeaderThenClause \cup ClauseAfterBody
    \cup {"step: S belongs to: F expects: x as number, y as text returns: list"}

\* The words of the type rule, and words it does not have.
TypeWords == {"number", "text", "boolean", "list", "table"}

OtherWords == {"fixed", "foo", "Number", "numbers"}

\* The texts before a type: of a declaration, a returns clause and a parameter.
TypePositions == {"declare: x as ", "step: S returns: ", "step: S expects: x as "}

TypePrograms == {p \o w : p \in TypePositions, w \in TypeWords \cup OtherWords}

\* The comparison phrases that begin a longer one, each followed by the rest
\* of the longer phrase, by a part of it, and by nothing of it.
ComparisonWords == {"is less than", "is greater than"}

ComparisonPrograms ==
  {"display a " \o c \o rest \o " b" :
     c \in ComparisonWords, rest \in {"", " or equal to", " or", " or equal"}}

\* Keywords where a name is expected.
ReservedWordPrograms == {"set set to 1", "set if to 1", "set x to to", "input display"}

\* Line ends between statements, inside a statement, inside a list and inside
\* a string.
NewlinePrograms ==
  {"display 1\ndisplay 2", "display\n1", "display a +\nb", "display [1,\n2]",
   "display \"a\nb\""}

\* The characters that make an escape after a backslash, and some that do not.
EscapeLetters == {"\"", "\\", "n", "r", "t"}

OtherLetters == {"q", "0", " ", "N"}

\* A string with a backslash and one of these characters in it, and a string
\* that the text ends in right after the backslash.
EscapePrograms ==
  {"display \"a\\" \o e \o "b\"" : e \in EscapeLetters \cup OtherLetters}
    \cup {"display \"a\\"}

\* Numbers: whole, with a fraction, with a dot and no digit after it, with a
\* second dot, with a sign, and after a subtraction.
NumberPrograms ==
  {"display 12", "display 1.5", "display 1.", "display 1.x", "display 1.5.2",
   "display -5", "display -1.5", "display 3-5"}

\* Line comments whose text is prose, a declaration and a bare keyword.
CommentLines == {"note: hello", "note: declare: x as number", "note: exit", "note: display"}

CommentPrograms == CommentLines \cup {"note: exit\ndisplay 1", "display 1 note: hi"}

\* Block comments: the lines between `note block:` and `end note`.
CommentedLines == {"hello", "declare: x as number", "the end of it", "end now"}

VerbatimPrograms == {"note block:\n" \o l \o "\nend note" : l \in CommentedLines}

\* Block comments with `end note` in the middle of a line.
BlockCommentPrograms ==
  VerbatimPrograms
    \cup {"note block:\nsay end note\ndisplay 1", "note block:\nsay end note now\nend note"}

\* Two binary operators of different tiers of the language, the looser first.
TierPrograms == {"display a or b and c", "display a is equal to b is less than c"}

\* Two binary operators of one tier.
SameTierPrograms ==
  {"display a - b - c", "display a + b - c", "display a and b and c",
   "display a is less than b is greater than c"}

\* An index after the operand of a unary and of a binary operator.
IndexPrograms == {"display not a[0]", "display a + b[0]", "display a[0][1]"}

\* Texts that end in the middle of a construct: after `to` of an assignment,
\* in an open list, in an open string, in an open parenthesis, after a binary
\* operator; the same after a complete statement.
TruncatedPrograms ==
  {"set x to", "display [", "display [1", "display \"abc", "display (1", "display a +",
   "display 1\nset x to"}

\* A parameter with a default value after its type.
ParameterPrograms == {"step: S expects: x as number = 1"}

\* A clause on the line after the header of a step.
ClauseOnNextLine == {"step: S\n" \o c : c \in ClauseWords}

\* An `otherwise if` and an `otherwise` clause on the line of the `if` and on
\* the line after it.
OtherwisePrograms ==
  {"if a otherwise", "if a otherwise if b otherwise", "if a\notherwise",
   "if a\notherwise if b"}

\* A keyword with letters right after it, where a statement and where a name
\* is expected.
WholeWordPrograms == {"displayx", "display displayx", "for eachitem in xs"}

\* Two statements on one line, with no newline between them.
OneLinePrograms == {"display 1 display 2", "set x to 1 set y to 2", "display a return"}

\* A `-` right before a digit: after an operand, where an expression starts,
\* and after a binary operator.
MinusPrograms == {"display a -1", "display -1", "display a - -1", "set x to 2 -1"}

\* A call with arguments inside a list and inside the arguments of a call.
NestedCallPrograms ==
  {"display [call f with a, b]", "display [a, call f with b, c]",
   "call g with call f with a, b", "call f with a, b"}

\* A step header with a clause of one kind twice.
RepeatedClausePrograms ==
  {"step: S returns: number returns: text", "step: S belongs to: F belongs to: G",
   "step: S expects: x as number expects: y as text"}

\* `declare:` with no name after it: alone, before a line end, before a
\* statement, before `fixed` alone and before a number; and whole declarations.
DeclarePrograms ==
  {"declare:", "declare:\ndisplay 1", "declare: display 1", "declare: fixed", "declare: 1",
   "declare: x as number", "declare: fixed x as number", "declare: x as number = 5"}

\* Carriage returns: before a line end, between two tokens, in a string and
\* at the end of a line comment.
CarriageReturnPrograms ==
  {"display 1\r\ndisplay 2", "display\r1", "display \"a\rb\"", "note: hi\r\ndisplay 1"}

Sources ==
  Programs \cup UnaryThenBinary \cup Phrases(MaxWords) \cup CallPrograms \cup AttemptPrograms
    \cup ClausePrograms \cup TypePrograms
    \cup ComparisonPrograms \cup ReservedWordPrograms
    \cup NewlinePrograms \cup EscapePrograms \cup NumberPrograms
    \cup CommentPrograms \cup BlockCommentPrograms
    \cup TierPrograms \cup SameTierPrograms \cup IndexPrograms \cup TruncatedPrograms
    \cup ParameterPrograms \cup ClauseOnNextLine \cup OtherwisePrograms \cup WholeWordPrograms \cup OneLinePrograms \cup MinusPrograms \cup NestedCallPrograms
    \cup RepeatedClausePrograms \cup DeclarePrograms
    \cup CarriageReturnPrograms

(***************************************************************************)
(* The parser                                                              *)
(***************************************************************************)

Top == stack[Len(stack)]

RECURSIVE Flatten(_)
Flatten(seqs) == IF seqs = <<>> THEN <<>> ELSE Head(seqs) \o Flatten(Tail(seqs))

\* What a child contributes to its parent in the syntax tree: itself when its
\* symbol is visible, else its own children in its place.
VisibleNodes(node) ==
  IF node.symbol \in ts_symbol_metadata_visible \cup {ts_builtin_sym_error}
    THEN <<node>>
    ELSE node.children

\* What a stack entry contributes to the error node that wraps it: an error
\* node dissolves into its children, anything else is as in any other parent.
ErrorParts(node) ==
  IF node.symbol = ts_builtin_sym_error /\ (node.children # <<>> \/ node.start = node.end)
    THEN node.children
    ELSE VisibleNodes(node)

\* The parent of the popped stack entries: the node of a reduction, or the
\* error node recovery wraps them in.
NodeOver(symbol, entries, at) ==
  [symbol   |-> symbol,
   start    |-> IF entries = <<>> THEN at ELSE entries[1].node.start,
   end      |-> IF entries = <<>> THEN at ELSE entries[Len(entries)].node.end,
   children |-> Flatten([i \in DOMAIN entries |->
                           IF symbol = ts_builtin_sym_error
                             THEN ErrorParts(entries[i].node)
                             ELSE VisibleNodes(entries[i].node)])]

Init ==
  /\ source \in Sources
  /\ position = 0
  /\ stack = <<[state |-> 1, node |-> NoNode, extra |-> FALSE]>>
  /\ lookahead = NoToken
  /\ pc = "lex"
  /\ error_count = 0
  /\ tree = NoNode

\* ts_parser__lex: lex the lookahead in the lex mode of the state on top.
Lex ==
  /\ pc \in {"lex", "lex_recover"}
  /\ lookahead' = ts_parser_lex(source, Top.state, position)
  /\ pc' = IF pc = "lex" THEN "parse" ELSE "recover"
  /\ UNCHANGED <<source, position, stack, error_count, tree>>

\* SHIFT(state): push the token's leaf under the new state and consume it.
Shift ==
  /\ pc = "parse"
  /\ \E a \in ParseActions(Top.state, lookahead.symbol) :
       /\ a.type = "Shift"
       /\ stack' = Append(stack,
                     [state |-> a.state,
                      node  |-> Leaf(lookahead.symbol, lookahead.start, lookahead.end),
                      extra |-> FALSE])
  /\ position' = lookahead.end
  /\ lookahead' = NoToken
  /\ pc' = "lex"
  /\ UNCHANGED <<source, error_count, tree>>

\* The number of entries left on the stack when child_count children are
\* popped: error nodes pushed by recovery are extra, they ride along with the
\* children around them and are not counted.
StackBelow(child_count) ==
  IF child_count = 0 THEN Len(stack)
  ELSE (CHOOSE j \in 1..Len(stack) :
          /\ ~stack[j].extra
          /\ Cardinality({i \in j..Len(stack) : ~stack[i].extra}) = child_count) - 1

\* The number of error nodes on top of the stack that recovery pushed as
\* extras: the trailing extras of a reduction.
TrailingExtras ==
  Len(stack) - (CHOOSE j \in 1..Len(stack) :
                  /\ ~stack[j].extra
                  /\ \A i \in (j + 1)..Len(stack) : stack[i].extra)

\* REDUCE(symbol, child_count): pop child_count entries, push their parent under
\* the state the row of the uncovered state gives for the symbol.  Extras on top
\* of the popped entries are no children of the parent: they go back on the
\* stack above it, under the same state.  The lookahead stays.
Reduce ==
  /\ pc = "parse"
  /\ \E a \in ParseActions(Top.state, lookahead.symbol) :
       /\ a.type = "Reduce"
       /\ LET n        == StackBelow(a.child_count)
              extras   == IF a.child_count = 0 THEN 0 ELSE TrailingExtras
              popped   == SubSeq(stack, n + 1, Len(stack) - extras)
              trailing == SubSeq(stack, Len(stack) - extras + 1, Len(stack))
              below    == stack[n]
              state    == ts_language_next_state(below.state, a.symbol)
          IN  stack' = Append(SubSeq(stack, 1, n),
                         [state |-> state,
                          node  |-> NodeOver(a.symbol, popped, lookahead.start),
                          extra |-> FALSE])
                       \o [i \in DOMAIN trailing |-> [trailing[i] EXCEPT !.state = state]]
  /\ UNCHANGED <<source, position, lookahead, pc, error_count, tree>>

\* ACCEPT_INPUT: the stack holds the root, and the error nodes around it become
\* its children.
Accept ==
  /\ pc = "parse"
  /\ \E a \in ParseActions(Top.state, lookahead.symbol) : a.type = "Accept"
  /\ LET n    == StackBelow(1)
          root == stack[n + 1].node
      IN  tree' = [root EXCEPT !.children =
                     Flatten([i \in 1..(Len(stack) - 1) |->
                                IF stack[i + 1].extra THEN <<stack[i + 1].node>>
                                ELSE stack[i + 1].node.children])]
  /\ pc' = "done"
  /\ UNCHANGED <<source, position, stack, lookahead, error_count>>

\* ts_parser__handle_error: the state on top has no action for the lookahead.
\* The error is reported and ERROR_STATE goes on top of the stack, holding the
\* error node the skipped tokens collect in.
HandleError ==
  /\ pc = "parse"
  /\ ParseActions(Top.state, lookahead.symbol) = {}
  /\ error_count' = error_count + 1
  /\ stack' = Append(stack,
                [state |-> ERROR_STATE,
                 node  |-> [symbol |-> ts_builtin_sym_error, start |-> lookahead.start,
                            end |-> position, children |-> <<>>],
                 extra |-> FALSE])
  /\ pc' = "recover"
  /\ UNCHANGED <<source, position, lookahead, tree>>

\* ts_parser__recover, resuming: an earlier stack entry, reached at another
\* offset than the current one, whose state has an action for the lookahead.
\* Everything above it is wrapped in one error node, pushed as an extra under
\* that entry's state, and parsing resumes there with the same lookahead.
RecoverToState ==
  /\ pc = "recover"
  /\ \E i \in 1..(Len(stack) - 1) :
       /\ stack[i].state # ERROR_STATE
       /\ stack[i].node.end # position
       /\ ts_language_has_actions(stack[i].state, lookahead.symbol)
       /\ stack' = Append(SubSeq(stack, 1, i),
                     [state |-> stack[i].state,
                      node  |-> NodeOver(ts_builtin_sym_error,
                                         SubSeq(stack, i + 1, Len(stack)), position),
                      extra |-> TRUE])
  /\ pc' = "parse"
  /\ UNCHANGED <<source, position, lookahead, error_count, tree>>

\* ts_parser__recover, skipping: RECOVER() is the action of every token in
\* ERROR_STATE; the lookahead joins the error node on top and the next token is
\* lexed in the error lex mode.
SkipToken ==
  /\ pc = "recover"
  /\ lookahead.symbol # "ts_builtin_sym_end"
  /\ \/ lookahead.symbol = ts_builtin_sym_error
     \/ RECOVER \in ParseActions(ERROR_STATE, lookahead.symbol)
  /\ LET leaf == Leaf(lookahead.symbol, lookahead.start, lookahead.end)
     IN  stack' = [stack EXCEPT ![Len(stack)].node =
                     [@ EXCEPT !.children = @ \o VisibleNodes(leaf),
                               !.end = lookahead.end]]
  /\ position' = lookahead.end
  /\ lookahead' = NoToken
  /\ pc' = "lex_recover"
  /\ UNCHANGED <<source, error_count, tree>>

\* ts_parser__recover at the end of the text: the whole stack is wrapped in an
\* error node, which is the root.
RecoverAtEnd ==
  /\ pc = "recover"
  /\ lookahead.symbol = "ts_builtin_sym_end"
  /\ tree' = NodeOver(ts_builtin_sym_error, SubSeq(stack, 2, Len(stack)), position)
  /\ pc' = "done"
  /\ UNCHANGED <<source, position, stack, lookahead, error_count>>

Next ==
  \/ Lex
  \/ Shift
  \/ Reduce
  \/ Accept
  \/ HandleError
  \/ RecoverToState
  \/ SkipToken
  \/ RecoverAtEnd

Spec == Init /\ [][Next]_vars

FairSpec == Spec /\ WF_vars(Next)

(***************************************************************************)
(* Reading syntax trees                                                    *)
(***************************************************************************)

\* The text a node spans.
TextOf(node) == SubSeq(source, node.start + 1, node.end)

\* A node and all its descendants.
RECURSIVE Descendants(_)
Descendants(node) ==
  {node} \cup UNION {Descendants(node.children[i]) : i \in DOMAIN node.children}

\* The children of a node that carry the given symbol, in order.
ChildrenOf(node, symbol) ==
  SelectSeq(node.children, LAMBDA c : c.symbol = symbol)

\* The tree as symbols and leaf texts only: <<symbol, text, children>>, with
\* text "" for a node that has children.
RECURSIVE Shape(_)
Shape(node) ==
  <<node.symbol,
    IF node.children = <<>> THEN TextOf(node) ELSE "",
    [i \in DOMAIN node.children |-> Shape(node.children[i])]>>

Tok(symbol, text) == <<symbol, text, <<>>>>

Node(symbol, children) == <<symbol, "", children>>

Binary(left, operator, text, right) ==
  Node("sym_binary_expression",
       <<left, Node("sym_binary_operator", <<Tok(operator, text)>>), right>>)

Unary(operator, text, operand) ==
  Node("sym_unary_expression",
       <<Node("sym_unary_operator", <<Tok(operator, text)>>), operand>>)

Finished(text) == pc = "done" /\ source = text

\* The text was accepted as a program: the root is a source_file free of error
\* nodes and the whole text was consumed.
Accepted ==
  /\ pc = "done"
  /\ tree.symbol = "sym_source_file"
  /\ \A n \in Descendants(tree) : n.symbol # ts_builtin_sym_error
  /\ lookahead.symbol = "ts_builtin_sym_end"

\* The parse ended without an error.
CleanParse == Accepted /\ error_count = 0

\* The nodes of the tree that carry the given symbol.
NodesOf(symbol) == {n \in Descendants(tree) : n.symbol = symbol}

\* The symbols of the children of a node, in order.
ChildSymbols(node) == [i \in DOMAIN node.children |-> node.children[i].symbol]

\* The operator token of a binary_expression node.
OperatorOf(node) == node.children[2].children[1].symbol

(***************************************************************************)
(* Properties                                                              *)
(***************************************************************************)

\* C1: multiplicative operators bind tighter than additive ones: `2 + 3 * 4`
\* parses to Binary(+, 2, Binary(*, 3, 4)), never to Binary(*, Binary(+, 2, 3), 4).
C1_MultiplicativeBindsTighter ==
  Finished("display 2 + 3 * 4") =>
    /\ CleanParse
    /\ Shape(tree) =
         Node("sym_source_file",
           <<Node("sym_display_statement",
               <<Tok("anon_sym_display", "display"),
                 Binary(Tok("sym_number", "2"), "anon_sym_PLUS", "+",
                        Binary(Tok("sym_number", "3"), "anon_sym_STAR", "*",
                               Tok("sym_number", "4")))>>)>>)

\* What the tables make of `2 + 3 * 4`: the operators group from the left.
C1_GroupsFromTheLeft ==
  Finished("display 2 + 3 * 4") =>
    /\ CleanParse
    /\ Shape(tree) =
         Node("sym_source_file",
           <<Node("sym_display_statement",
               <<Tok("anon_sym_display", "display"),
                 Binary(Binary(Tok("sym_number", "2"), "anon_sym_PLUS", "+",
                               Tok("sym_number", "3")),
                        "anon_sym_STAR", "*", Tok("sym_number", "4"))>>)>>)

\* C2: a unary prefix operator binds tighter than every binary operator: the
\* operand of a unary_expression is never a binary_expression, and
\* `not a is equal to b` parses as Binary(is_equal_to, Unary(not, a), b).
C2_UnaryBindsTighter ==
  pc = "done" =>
    /\ \A n \in Descendants(tree) :
         n.symbol = "sym_unary_expression" /\ Len(n.children) = 2
           => n.children[2].symbol # "sym_binary_expression"
    /\ source \in UnaryThenBinary =>
         /\ CleanParse
         /\ LET operand == tree.children[1].children[2]
            IN  /\ operand.symbol = "sym_binary_expression"
                /\ operand.children[1].symbol = "sym_unary_expression"
                /\ TextOf(operand.children[1].children[2]) = "a"
                /\ TextOf(operand.children[3]) = "b"
    /\ source = "display not a is equal to b" =>
         Shape(tree) =
           Node("sym_source_file",
             <<Node("sym_display_statement",
                 <<Tok("anon_sym_display", "display"),
                   Binary(Unary("anon_sym_not", "not", Tok("sym_identifier", "a")),
                          "anon_sym_isequalto", "is equal to",
                          Tok("sym_identifier", "b"))>>)>>)

\* C2 is about parses like this one: a unary operator, its operand, a binary
\* operator and a second operand, parsed to the end.
C2_Witness ==
  /\ Finished("display not a is equal to b")
  /\ CleanParse
  /\ \E n \in Descendants(tree) : n.symbol = "sym_unary_expression"

\* C3: `building: Foo`, then `floor: Bar`, then `building: Baz` gives two
\* top-level Building nodes, the first with exactly one Floor child and no
\* statement of its own.
C3_FloorNestsInBuilding ==
  Finished("building: Foo\nfloor: Bar\nbuilding: Baz") =>
    /\ CleanParse
    /\ Len(tree.children) = 2
    /\ \A i \in 1..2 :
         \E n \in Descendants(tree.children[i]) : n.symbol = "sym_building_def"
    /\ Cardinality({n \in Descendants(tree.children[1]) : n.symbol = "sym_floor_def"}) = 1
    /\ {n \in Descendants(tree.children[2]) : n.symbol = "sym_floor_def"} = {}

\* C4: `if A: display 1 otherwise if B: display 2 otherwise: display 3` gives a
\* single If node with exactly one elif clause and one else clause, in that order.
C4_IfWithElifAndElse ==
  Finished("if A: display 1 otherwise if B: display 2 otherwise: display 3") =>
    /\ CleanParse
    /\ Cardinality(NodesOf("sym_if_statement")) = 1
    /\ \A n \in NodesOf("sym_if_statement") :
         SelectSeq(ChildSymbols(n),
                   LAMBDA s : s \in {"sym_otherwise_if_clause", "sym_otherwise_clause"})
           = <<"sym_otherwise_if_clause", "sym_otherwise_clause">>

\* C5: an unterminated string such as `"abc` yields exactly one error and the
\* parser recovers at the next statement: the statement on the following line
\* (here `display 1`, from offset 13 on) is parsed normally.
C5_UnterminatedStringRecovers ==
  Finished("display \"abc\ndisplay 1") =>
    /\ error_count = 1
    /\ \E n \in NodesOf("sym_display_statement") :
         /\ n.start = 13
         /\ ChildSymbols(n) = <<"anon_sym_display", "sym_number">>
         /\ TextOf(n.children[2]) = "1"

\* C6: where a name may come next, `for` followed by `each` with no loop syntax
\* after it (here: the text ends there) is not lexed as the `for each` keyword.
C6_ForEachNotKeywordWithoutLoop ==
  (/\ pc = "parse"
   /\ ts_language_has_actions(Top.state, "sym_identifier")
   /\ SubSeq(source, lookahead.start + 1, Len(source)) = "for each")
    => lookahead.symbol # "anon_sym_foreach"

C8_BothAssignmentSpellings ==
  (pc = "done" /\ source \in {"x = 1", "set x to 1"}) =>
    /\ CleanParse
    /\ Cardinality(NodesOf("sym_assignment")) = 1
    /\ \A n \in NodesOf("sym_assignment") :
         /\ \E i \in DOMAIN n.children :
              n.children[i].symbol = "sym_identifier" /\ TextOf(n.children[i]) = "x"
         /\ n.children[Len(n.children)].symbol = "sym_number"
         /\ TextOf(n.children[Len(n.children)]) = "1"

StructureSymbols == {"sym_building_def", "sym_floor_def", "sym_step_def", "sym_riser_def"}

\* C9: every statement that follows a building/floor/step/riser header, up to
\* the next structure definition or the end of the input, is a child of that
\* structure's node and not a top-level item of the program: no top-level item
\* after a structure definition is anything but a structure definition.
C9_StatementsBelongToStructure ==
  CleanParse =>
    \A i, j \in DOMAIN tree.children :
      (i < j /\ tree.children[i].symbol = "sym_structure_definition")
        => tree.children[j].symbol = "sym_structure_definition"

\* One statement after the header of each block-bearing statement.
BlockPrograms ==
  {"if a: display 1", "repeat 2 times: display 1", "for each x in xs: display 1",
   "while a: display 1"}

BlockSymbols ==
  {"sym_if_statement", "sym_repeat_statement", "sym_for_each_statement",
   "sym_while_statement"}

\* C10: each block-bearing statement consumes a trailing colon after its header
\* and owns the following statements as its nested body.
C10_BlocksOwnTheirBody ==
  (pc = "done" /\ source \in BlockPrograms) =>
    /\ CleanParse
    /\ \E b \in Descendants(tree) :
         /\ b.symbol \in BlockSymbols
         /\ \E n \in Descendants(b) : n.symbol = "sym_display_statement"

\* The arguments of an argument_list node: its children but the commas.
Arguments(list) == SelectSeq(list.children, LAMBDA c : c.symbol # "anon_sym_COMMA")

\* C11: `call NAME with (ARGS)`, ARGS one or more comma-separated expressions
\* in parentheses, optionally followed by `storing result in NAME`, is accepted
\* and yields a call with exactly those arguments: here the two arguments 1, 2.
C11_CallWithParenthesizedArguments ==
  (pc = "done" /\ source \in {"call f with (1, 2)",
                               "call f with (1, 2) storing result in r"}) =>
    /\ CleanParse
    /\ Cardinality(NodesOf("sym_call_statement")) = 1
    /\ \A c \in NodesOf("sym_call_statement") :
         \E a \in Descendants(c) :
           /\ a.symbol = "sym_argument_list"
           /\ Len(Arguments(a)) = 2
           /\ TextOf(Arguments(a)[1]) = "1"
           /\ TextOf(Arguments(a)[2]) = "2"

\* C12: a value-producing call `NAME(args)` is accepted as an expression where
\* an expression is valid: as the operand of `display` and as the right-hand
\* side of an assignment.
C12_CallExpressionWithParentheses ==
  (pc = "done" /\ source \in {"display f(1)", "set x to f(1)"}) =>
    /\ CleanParse
    /\ \E n \in NodesOf("sym_call_expression") : TextOf(n) = "f(1)"

\* C13: the `call` keyword is only the first token of a call statement: in an
\* accepted program no other node has it as a child.
C13_CallOnlyStartsStatement ==
  Accepted =>
    \A n \in Descendants(tree) : \A i \in DOMAIN n.children :
      n.children[i].symbol = "anon_sym_call"
        => (n.symbol = "sym_call_statement" /\ i = 1)

\* C14: an attempt statement is `attempt:`, a required `if unsuccessful:` clause
\* and an optional `then continue:` clause, in that order: with the required
\* clause it is accepted, with or without `then continue:`; without it, it is
\* not accepted.
C14_AttemptNeedsIfUnsuccessful ==
  pc = "done" =>
    /\ source = "attempt: if unsuccessful:" =>
         /\ CleanParse
         /\ \E n \in NodesOf("sym_attempt_statement") :
              ChildSymbols(n) = <<"anon_sym_attempt_COLON", "sym_if_unsuccessful_clause">>
    /\ source = "attempt: if unsuccessful: then continue:" =>
         /\ CleanParse
         /\ \E n \in NodesOf("sym_attempt_statement") :
              ChildSymbols(n) = <<"anon_sym_attempt_COLON", "sym_if_unsuccessful_clause",
                                  "sym_then_continue_clause">>
    /\ source \in {"attempt: then continue:", "attempt:"} => ~CleanParse

ClauseSymbols == {"sym_belongs_clause", "sym_expects_clause", "sym_returns_clause"}

\* The nodes that have a step_clauses child.
ClauseCarriers ==
  {n \in Descendants(tree) : \E i \in DOMAIN n.children :
                               n.children[i].symbol = "sym_step_clauses"}

\* C15: only a `step:` header carries clauses: no clause is attached to a
\* `riser:`, `floor:` or `building:` header.
C15_OnlyStepCarriesClauses ==
  pc = "done" =>
    \A n \in ClauseCarriers :
      n.symbol = "sym_step_def" /\ n.children[1].symbol = "anon_sym_step_COLON"

\* C15 as the tables have it: only `step:` and `riser:` headers carry clauses;
\* a clause after a `floor:` or `building:` header is an error and makes no
\* clause node.
C15_OnlyStepAndRiserCarryClauses ==
  pc = "done" =>
    /\ \A n \in ClauseCarriers :
         \/ n.symbol = "sym_step_def" /\ n.children[1].symbol = "anon_sym_step_COLON"
         \/ n.symbol = "sym_riser_def" /\ n.children[1].symbol = "anon_sym_riser_COLON"
    /\ (\E c \in ClauseWords : source \in {"floor: F " \o c, "building: B " \o c}) =>
         /\ error_count > 0
         /\ ~Accepted
         /\ \A n \in Descendants(tree) : n.symbol \notin ClauseSymbols \cup {"sym_step_clauses"}

\* C15 is about headers with a clause: here a riser whose clause was parsed
\* and attached to it.
C15_Witness ==
  /\ Finished("riser: R expects: x as number")
  /\ CleanParse
  /\ \E n \in ClauseCarriers : n.symbol = "sym_riser_def"

\* The stack entries that are not error nodes pushed by recovery.
ParsedEntries == SelectSeq(stack, LAMBDA e : ~e.extra)

\* The stack ends in the name of a step or riser header, or in a clause.
AfterHeaderOrClause ==
  LET entries == ParsedEntries
      n       == Len(entries)
  IN  \/ /\ n >= 3
         /\ entries[n].node.symbol = "sym_identifier"
         /\ entries[n - 1].node.symbol \in {"anon_sym_step_COLON", "anon_sym_riser_COLON"}
      \/ /\ n >= 4
         /\ entries[n].node.symbol \in ClauseSymbols \cup {"aux_sym_step_clauses_repeat1"}

\* C16: clause keywords are legal only right after a `step:`/`riser:` header,
\* before any body statement: a clause keyword is shifted only after the
\* header's name or another clause, the clauses of an accepted program sit in
\* the step_clauses that follow the name of a step_def or riser_def, and a
\* clause keyword after a body statement is a syntax error.
C16_ClausesOnlyAfterHeader ==
  /\ (/\ pc = "parse"
      /\ lookahead.symbol \in ClauseKeywords
      /\ \E a \in ParseActions(Top.state, lookahead.symbol) : a.type = "Shift")
       => AfterHeaderOrClause
  /\ Accepted =>
       \A k \in Descendants(tree) :
         k.symbol \in ClauseSymbols =>
           \E d \in NodesOf("sym_step_def") \cup NodesOf("sym_riser_def") :
             /\ Len(d.children) = 3
             /\ d.children[2].symbol = "sym_identifier"
             /\ d.children[3].symbol = "sym_step_clauses"
             /\ \E i \in DOMAIN d.children[3].children : d.children[3].children[i] = k
  /\ (pc = "done" /\ source \in ClauseAfterBody) => (error_count > 0 /\ ~Accepted)

\* C16 is about a clause keyword met after a body statement: the parse of such
\* a program, ended with its error.
C16_Witness ==
  /\ Finished("step: S\ndisplay 1\nexpects: x as number")
  /\ error_count > 0
  /\ \E n \in Descendants(tree) : n.symbol = "sym_display_statement"

\* The token of each type word.
TypeKeyword ==
  [w \in TypeWords \cup {"fixed"} |-> "anon_sym_" \o w]

\* C17: the type position of a declaration, parameter or returns clause accepts
\* exactly the six words number, text, boolean, list, table and fixed, each
\* giving its own type: each of the six is accepted there as a type node of
\* its own keyword.
C17_SixTypeWords ==
  \A p \in TypePositions : \A w \in TypeWords \cup {"fixed"} :
    Finished(p \o w) =>
      /\ CleanParse
      /\ \E t \in NodesOf("sym_type") :
           /\ TextOf(t) = w
           /\ ChildSymbols(t) = <<TypeKeyword[w]>>

\* C18: a word in type position that is not a type keyword is reported as an
\* error and never taken as some type: every type node is one of the type
\* keywords, spelled as that keyword, and a program with another word in the
\* type position ends with an error and without a type node.
C18_UnknownTypeWordIsError ==
  pc = "done" =>
    /\ \A t \in NodesOf("sym_type") :
         \E w \in TypeWords : TextOf(t) = w /\ ChildSymbols(t) = <<TypeKeyword[w]>>
    /\ (\E p \in TypePositions : source \in {p \o "foo", p \o "Number", p \o "numbers"}) =>
         /\ error_count > 0
         /\ ~Accepted
         /\ NodesOf("sym_type") = {}

\* C18 is about a word that is no type keyword in the type position: such a
\* program parsed to the end, its error reported.
C18_Witness ==
  /\ Finished("declare: x as foo")
  /\ error_count > 0
  /\ tree # NoNode

\* The text reads `phrase` from offset `at` on.
ReadsAt(at, phrase) ==
  /\ at + Len(phrase) <= Len(source)
  /\ SubSeq(source, at + 1, at + Len(phrase)) = phrase

\* The lookahead is the token `symbol`, spelled `phrase`.
LookaheadIs(symbol, phrase) ==
  /\ lookahead.symbol = symbol
  /\ lookahead.end = lookahead.start + Len(phrase)

\* C19: multi-word operators are lexed by longest match: where the text reads
\* `is less than or equal to` the token is that operator and never `is less
\* than` followed by `or`; where the words after `is less than` do not complete
\* the longer phrase, the token is `is less than`.  The same for `is greater
\* than`.
C19_LongestMatch ==
  \A c \in ComparisonWords :
    (/\ pc \in {"parse", "recover"}
     /\ lookahead.symbol # "ts_builtin_sym_end"
     /\ ReadsAt(lookahead.start, c))
      => IF ReadsAt(lookahead.start, c \o " or equal to")
           THEN LookaheadIs(IF c = "is less than" THEN "anon_sym_islessthanorequalto"
                            ELSE "anon_sym_isgreaterthanorequalto", c \o " or equal to")
           ELSE LookaheadIs(IF c = "is less than" THEN "anon_sym_islessthan"
                            ELSE "anon_sym_isgreaterthan", c)

\* C19 is about a text that reads the longer phrase: the token lexed there.
C19_Witness ==
  /\ pc = "parse"
  /\ source = "display a is less than or equal to b"
  /\ lookahead.start = 10
  /\ lookahead.symbol = "anon_sym_islessthanorequalto"

\* Keywords the properties name as reserved.
ReservedWords == {"set", "if", "display", "to"}

\* C20: reserved words cannot be shadowed by identifiers: text equal to a
\* keyword is never lexed as an identifier, also where a name is expected.
C20_ReservedWordsNotIdentifiers ==
  (pc \in {"parse", "recover"} /\ lookahead.symbol = "sym_identifier")
    => SubSeq(source, lookahead.start + 1, lookahead.end) \notin ReservedWords

\* The parser holds a token the lexer has just handed it.
HoldsToken == pc \in {"parse", "recover"} /\ lookahead # NoToken

\* The tokens of the content of a block comment, which is kept line by line.
BlockCommentContentTokens ==
  {"aux_sym_block_comment_content_token1", "aux_sym_block_comment_content_token2",
   "aux_sym_block_comment_content_token3", "aux_sym_block_comment_content_token4",
   "aux_sym_block_comment_content_token5", "aux_sym_block_comment_content_token6",
   "aux_sym_block_comment_content_token7", "aux_sym_block_comment_content_token8"}

\* The offsets of the line ends the lexer went over to produce the lookahead.
NewlinesRead ==
  {i \in position..(lookahead.end - 1) : SubSeq(source, i + 1, i + 1) = "\n"}

\* C21: every newline of the source (outside a block comment, which keeps its
\* lines) reaches the parser as a _newline token of its own: the lexer neither
\* skips it before a token nor takes it into another token.
C21_EveryNewlineIsAToken ==
  (HoldsToken /\ lookahead.symbol \notin BlockCommentContentTokens) =>
    \A i \in NewlinesRead :
      /\ lookahead.symbol = "sym__newline"
      /\ lookahead.start = i
      /\ lookahead.end = i + 1

\* Outside the content of a string as well, the property of C21 holds: the one
\* token besides the content of a block comment that takes a newline in is
\* the content of a string.
C21_OutsideStringContent ==
  (/\ HoldsToken
   /\ lookahead.symbol \notin BlockCommentContentTokens
   /\ lookahead.symbol # "aux_sym_string_content_token1") =>
    \A i \in NewlinesRead :
      /\ lookahead.symbol = "sym__newline"
      /\ lookahead.start = i
      /\ lookahead.end = i + 1

\* The parse states inside a string: their lex mode is the one of string content.
InStringStates == {s \in 0..(Len(ts_lex_modes) - 1) : ts_lex_modes[s + 1] = 20}

\* C22: inside a string a backslash followed by `"`, `\`, `n`, `r` or `t` is
\* an escape sequence of these two characters; followed by anything else, or
\* by the end of the text, it is a lexical error, lexed as an ERROR token
\* that begins at the backslash.  No other text is an escape sequence.
C22_OnlyFiveEscapes ==
  /\ (HoldsToken /\ pc = "parse" /\ Top.state \in InStringStates /\ ReadsAt(position, "\\"))
       => IF \E e \in EscapeLetters : ReadsAt(position, "\\" \o e)
            THEN lookahead = Token("sym_escape_sequence", position, position + 2, FALSE)
            ELSE lookahead.symbol = ts_builtin_sym_error /\ lookahead.start = position
  /\ (HoldsToken /\ lookahead.symbol = "sym_escape_sequence")
       => /\ lookahead.end = lookahead.start + 2
          /\ \E e \in EscapeLetters : ReadsAt(lookahead.start, "\\" \o e)

\* C22 is about a backslash before another character inside a string: here
\* before `q`, lexed as an error.
C22_Witness ==
  /\ pc = "parse"
  /\ Top.state \in InStringStates
  /\ ReadsAt(position, "\\q")
  /\ lookahead.symbol = ts_builtin_sym_error

Digits == {"0", "1", "2", "3", "4", "5", "6", "7", "8", "9"}

\* text is a run of one or more digits.
IsDigits(text) ==
  /\ text # ""
  /\ \A i \in 1..Len(text) : SubSeq(text, i, i) \in Digits

\* text is a run of digits, or a run of digits, a dot and a run of digits.
IsDigitsAndFraction(text) ==
  \/ IsDigits(text)
  \/ \E k \in 2..(Len(text) - 1) :
       /\ SubSeq(text, k, k) = "."
       /\ IsDigits(SubSeq(text, 1, k - 1))
       /\ IsDigits(SubSeq(text, k + 1, Len(text)))

\* The number token stops where it has to: not before a digit, and before a
\* dot only if no digit follows the dot or the token has its fraction.
NumberStopsRight ==
  /\ \A d \in Digits : ~ReadsAt(lookahead.end, d)
  /\ \A d \in Digits :
       ReadsAt(lookahead.end, "." \o d) =>
         \E k \in (lookahead.start + 1)..lookahead.end : ReadsAt(k - 1, ".")

C24_CommentTakesTheLine ==
  \A text \in CommentLines :
    Finished(text) =>
      /\ CleanParse
      /\ ChildSymbols(tree) = <<"sym_comment">>
      /\ tree.children[1].start = 0
      /\ tree.children[1].end = Len(text)

\* The offset is the first of its line, the offset is the end of a line.
LineStartsAt(offset) == offset = 0 \/ ReadsAt(offset - 1, "\n")

LineEndsAt(offset) == offset = Len(source) \/ ReadsAt(offset, "\n")

\* C25: a block comment ends only at a line that consists of `end note`: the
\* terminator of every block comment node is a whole line (an `end note` in
\* the middle of a line ends no comment) and lies after the content.
C25_EndNoteOnItsOwnLine ==
  \A text \in BlockCommentPrograms :
    Finished(text) =>
      \A n \in NodesOf("sym_block_comment") :
        \A i \in DOMAIN n.children :
          n.children[i].symbol = "anon_sym_endnote" =>
            /\ LineStartsAt(n.children[i].start)
            /\ LineEndsAt(n.children[i].end)
            /\ \A j \in 1..(i - 1) : n.children[j].end <= n.children[i].start

\* C30: block comment capture is verbatim and keyword-insensitive: any lines
\* between `note block:` and the terminator line are comment content, also
\* `declare: x as number` and lines with `end of` or `end now` in them; the
\* text parses without error to one block comment node.
C30_BlockCommentIsVerbatim ==
  \A text \in VerbatimPrograms :
    Finished(text) =>
      /\ CleanParse
      /\ ChildSymbols(tree) = <<"sym_block_comment">>
      /\ tree.children[1].start = 0
      /\ tree.children[1].end = Len(text)

\* The tree of `display` followed by the expression of the given shape.
Displays(expression) ==
  Node("sym_source_file",
    <<Node("sym_display_statement", <<Tok("anon_sym_display", "display"), expression>>)>>)

Name(text) == Tok("sym_identifier", text)

\* C26: the binary tiers are ordered or < and < equality < relational: in
\* `a or b and c` the `and` groups first, Binary(or, a, Binary(and, b, c)), and
\* in `a is equal to b is less than c` the comparison groups first,
\* Binary(is_equal_to, a, Binary(is_less_than, b, c)).
C26_TiersOrdered ==
  /\ Finished("display a or b and c") =>
       /\ CleanParse
       /\ Shape(tree) =
            Displays(Binary(Name("a"), "anon_sym_or", "or",
                            Binary(Name("b"), "anon_sym_and", "and", Name("c"))))
  /\ Finished("display a is equal to b is less than c") =>
       /\ CleanParse
       /\ Shape(tree) =
            Displays(Binary(Name("a"), "anon_sym_isequalto", "is equal to",
                            Binary(Name("b"), "anon_sym_islessthan", "is less than",
                                   Name("c"))))

\* C27: binary operators of the same tier group from the left: `a - b - c`
\* parses as Binary(-, Binary(-, a, b), c), and so does every text of two
\* operators of one tier: the left operand is the binary expression of a and
\* b, the right operand is c.
C27_SameTierGroupsFromTheLeft ==
  /\ Finished("display a - b - c") =>
       /\ CleanParse
       /\ Shape(tree) =
            Displays(Binary(Binary(Name("a"), "anon_sym_DASH", "-", Name("b")),
                            "anon_sym_DASH", "-", Name("c")))
  /\ (pc = "done" /\ source \in SameTierPrograms) =>
       /\ CleanParse
       /\ LET whole == tree.children[1].children[2]
          IN  /\ whole.symbol = "sym_binary_expression"
              /\ whole.children[1].symbol = "sym_binary_expression"
              /\ TextOf(whole.children[1].children[1]) = "a"
              /\ TextOf(whole.children[1].children[3]) = "b"
              /\ TextOf(whole.children[3]) = "c"

\* C27 is about a parse of two operators of one tier, to its end.
C27_Witness ==
  /\ Finished("display a - b - c")
  /\ CleanParse
  /\ Cardinality(NodesOf("sym_binary_expression")) = 2

Index(base, index) ==
  Node("sym_index_expression",
       <<base, Tok("anon_sym_LBRACK", "["), index, Tok("anon_sym_RBRACK", "]")>>)

\* C28: postfix indexing binds tighter than the unary and the binary
\* operators: what is indexed is never a unary or binary expression,
\* `not a[0]` parses as Unary(not, Index(a, 0)) and `a + b[0]` as
\* Binary(+, a, Index(b, 0)).
C28_IndexBindsTighter ==
  /\ pc = "done" =>
       \A n \in NodesOf("sym_index_expression") :
         n.children[1].symbol \notin {"sym_unary_expression", "sym_binary_expression"}
  /\ Finished("display not a[0]") =>
       /\ CleanParse
       /\ Shape(tree) =
            Displays(Unary("anon_sym_not", "not", Index(Name("a"), Tok("sym_number", "0"))))
  /\ Finished("display a + b[0]") =>
       /\ CleanParse
       /\ Shape(tree) =
            Displays(Binary(Name("a"), "anon_sym_PLUS", "+",
                            Index(Name("b"), Tok("sym_number", "0"))))

\* C28 is about an index after the operand of an operator, parsed to the end.
C28_Witness ==
  /\ Finished("display not a[0]")
  /\ CleanParse
  /\ NodesOf("sym_index_expression") # {}
  /\ NodesOf("sym_unary_expression") # {}

C31_ParameterMayHaveDefault ==
  Finished("step: S expects: x as number = 1") =>
    /\ CleanParse
    /\ \E n \in NodesOf("sym_parameter") :
         /\ Len(n.children) > 3
         /\ ChildSymbols(n)[1] = "sym_identifier"
         /\ TextOf(n.children[Len(n.children)]) = "1"

\* C32: a `belongs to:`, `expects:` or `returns:` clause on the line after its
\* `step: NAME` header, a newline between them, is attached to that step:
\* the text parses without error and the clause is among the clauses of the
\* step_def node.
C32_ClauseOnNextLineAttaches ==
  \A text \in ClauseOnNextLine :
    Finished(text) =>
      /\ CleanParse
      /\ \E n \in NodesOf("sym_step_def") :
           \E c \in Descendants(n) : c.symbol \in ClauseSymbols

\* C33: an `otherwise if` or `otherwise` clause that begins on the line after
\* the condition of the `if` is attached to that `if` statement: the text
\* parses without error and the clause is a child of the if_statement node.
C33_OtherwiseOnNextLineAttaches ==
  \A text \in {"if a\notherwise", "if a\notherwise if b"} :
    Finished(text) =>
      /\ CleanParse
      /\ \E n \in NodesOf("sym_if_statement") :
           \E i \in DOMAIN n.children :
             n.children[i].symbol \in {"sym_otherwise_if_clause", "sym_otherwise_clause"}

\* The characters of an identifier: letters, digits and the underscore.
IdentifierCharacters ==
  {SubSeq(PrintableLow, i, i) : i \in 17..26 \cup 34..59 \cup {64}}
    \cup {SubSeq(PrintableHigh, i, i) : i \in 1..26}

\* C34: a keyword is recognised only as a whole word: the `display` and
\* `for each` tokens never end right before a character of an identifier, so
\* `displayx` and `for eachitem` are not split into a keyword and a name.
C34_KeywordIsWholeWord ==
  (HoldsToken /\ lookahead.symbol \in {"anon_sym_display", "anon_sym_foreach"}) =>
    \A ch \in IdentifierCharacters : ~ReadsAt(lookahead.end, ch)

\* C35: a statement ends where the next statement keyword appears, with no
\* newline between them: `display 1 display 2` on one line parses without
\* error as two display statements, and so do other pairs of statements.
C35_StatementEndsAtNextKeyword ==
  /\ Finished("display 1 display 2") =>
       /\ CleanParse
       /\ Shape(tree) =
            Node("sym_source_file",
              <<Node("sym_display_statement",
                     <<Tok("anon_sym_display", "display"), Tok("sym_number", "1")>>),
                Node("sym_display_statement",
                     <<Tok("anon_sym_display", "display"), Tok("sym_number", "2")>>)>>)
  /\ (pc = "done" /\ source \in OneLinePrograms) =>
       /\ CleanParse
       /\ Len(tree.children) = 2

\* C35 is about two statements on one line, parsed to the end.
C35_Witness ==
  /\ Finished("display 1 display 2")
  /\ CleanParse
  /\ Cardinality(NodesOf("sym_display_statement")) = 2

\* C36: a `-` right before a digit is the sign of a number token only where
\* an expression may start (the parse state has an action for a number);
\* after a complete operand it is the binary operator `-`, a token of its
\* own.  `a -1` parses as Binary(-, a, 1) and `display -1` displays the one
\* number -1.
C36_MinusBeforeDigit ==
  /\ (/\ HoldsToken
      /\ pc = "parse"
      /\ \E d \in Digits : ReadsAt(lookahead.start, "-" \o d))
       => IF ts_language_has_actions(Top.state, "sym_number")
            THEN lookahead.symbol = "sym_number" /\ lookahead.end > lookahead.start + 1
            ELSE lookahead.symbol = "anon_sym_DASH" /\ lookahead.end = lookahead.start + 1
  /\ Finished("display a -1") =>
       /\ CleanParse
       /\ Shape(tree) =
            Displays(Binary(Name("a"), "anon_sym_DASH", "-", Tok("sym_number", "1")))
  /\ Finished("display -1") =>
       /\ CleanParse
       /\ Shape(tree) = Displays(Tok("sym_number", "-1"))

\* C36 is about a `-` before a digit after an operand: `a -1` parsed to the end.
C36_Witness ==
  /\ Finished("display a -1")
  /\ CleanParse
  /\ Cardinality(NodesOf("sym_binary_expression")) = 1

\* The arguments of the with clause of a call node, in order.
ArgumentsOfCall(call) ==
  LET with == ChildrenOf(call, "sym_with_clause")[1]
  IN  Arguments(ChildrenOf(with, "sym_argument_list")[1])

\* C37: inside a list literal or an argument list a nested `call NAME with
\* ARG` takes its first argument only: every call_expression with a with
\* clause has one argument, and in `[call f with a, b]` the list has two
\* elements, the call of f with the argument a, and b.
C37_NestedCallTakesOneArgument ==
  /\ (pc = "done" /\ source \in NestedCallPrograms) =>
       /\ CleanParse
       /\ \A n \in NodesOf("sym_call_expression") :
            ChildrenOf(n, "sym_with_clause") # <<>> => Len(ArgumentsOfCall(n)) = 1
  /\ Finished("display [call f with a, b]") =>
       LET list     == tree.children[1].children[2]
           elements == Arguments(ChildrenOf(list, "sym_argument_list")[1])
       IN  /\ list.symbol = "sym_list_literal"
           /\ Len(elements) = 2
           /\ elements[1].symbol = "sym_call_expression"
           /\ TextOf(elements[1].children[2]) = "f"
           /\ TextOf(ArgumentsOfCall(elements[1])[1]) = "a"
           /\ Shape(elements[2]) = Name("b")

\* C37 is about a call with arguments inside a list, parsed to the end.
C37_Witness ==
  /\ Finished("display [call f with a, b]")
  /\ CleanParse
  /\ NodesOf("sym_call_expression") # {}

\* C38: in one step header each of `belongs to:`, `expects:` and `returns:`
\* is accepted at most once: no step_def of an accepted text holds two clauses
\* of one kind, and a header with a clause repeated is a syntax error.
C38_EachClauseAtMostOnce ==
  /\ Accepted =>
       \A n \in NodesOf("sym_step_def") :
         \A kind \in ClauseSymbols :
           Cardinality({c \in Descendants(n) : c.symbol = kind}) <= 1
  /\ (pc = "done" /\ source \in RepeatedClausePrograms) => error_count > 0

\* The node has a child that is a name.
HasName(node) == \E i \in DOMAIN node.children : node.children[i].symbol = "sym_identifier"

C40_CarriageReturnIsSkipped ==
  Finished("display 1\r\ndisplay 2") =>
    /\ CleanParse
    /\ Shape(tree) =
         Node("sym_source_file",
           <<Node("sym_display_statement",
                  <<Tok("anon_sym_display", "display"), Tok("sym_number", "1")>>),
             Node("sym_display_statement",
                  <<Tok("anon_sym_display", "display"), Tok("sym_number", "2")>>)>>)

\* The tokens that take any character in: the content of a string, of a line
\* comment and of a block comment.
ContentTokens ==
  {"aux_sym_string_content_token1", "sym_comment_content"} \cup BlockCommentContentTokens

\* C40, as the lexer has it: a carriage return is not whitespace.  The
\* characters skipped before a token are spaces and tabs only; a carriage
\* return where a token starts is content of a string or comment or else an
\* illegal character, lexed as an ERROR token; and the text with CRLF line
\* ends does not parse without error.
C40_OnlySpaceAndTabAreSkipped ==
  /\ HoldsToken =>
       /\ \A i \in position..(lookahead.start - 1) :
            SubSeq(source, i + 1, i + 1) \in {" ", "\t"}
       /\ ReadsAt(lookahead.start, "\r") =>
            lookahead.symbol \in ContentTokens \cup {ts_builtin_sym_error}
  /\ Finished("display 1\r\ndisplay 2") => error_count > 0

\* C40 is about a carriage return before a line end: the error token lexed
\* there.
C40_Witness ==
  /\ pc = "parse"
  /\ source = "display 1\r\ndisplay 2"
  /\ lookahead.symbol = ts_builtin_sym_error
  /\ lookahead.start = 9

=============================================================================
